---- MODULE Spec2Model ----
(***************************************************************************)
(* The AMS operation coordinator of bambuddy: the React hook               *)
(* useAmsOperations (frontend/src/components/control/AMSSectionDual.tsx,   *)
(* lines 1328-1704).  The hook keeps the operation state machine           *)
(* IDLE / REFRESHING / LOADING / UNLOADING, dispatches the command through *)
(* a mutation, arms a timeout, and detects completion in four effects that *)
(* React re-runs when one of their dependencies changes.                   *)
(*                                                                         *)
(* React semantics kept by the model:                                      *)
(*  - state, context and lastOperationType are the values of the last      *)
(*    render; the callbacks startRefresh/startLoad/startUnload close over  *)
(*    them.  A setState call only queues the new value (pendingState,      *)
(*    pendingContext, pendingLastOp); the next render commits it.          *)
(*  - refs (prevAmsStatusMainRef, refreshInitialDataRef,                   *)
(*    refreshInitialAmsUpdateRef, timeoutRef) are written immediately.     *)
(*  - a callback, a render and the run of the passive effects are          *)
(*    separate steps.  A callback (request, reset, timer, mutation answer) *)
(*    only queues; a new status is handed over and rendered later; Render  *)
(*    commits the queued state and the latest props and schedules the      *)
(*    effects of which a dependency changed; Effects runs them in source   *)
(*    order, and a reset() made by an effect queues the next render.       *)
(*    Other callbacks and the clock may run between the three; React runs  *)
(*    the effects of a render before it renders again.                     *)
(*  - every telemetry delivery replaces status.ams, so amsUnits is a new   *)
(*    array and the refresh effect re-runs on every delivery.              *)
(*                                                                         *)
(* The component that calls the hook, AMSSectionDual, shows the filament   *)
(* change card while a load/unload runs or the printer reports a filament  *)
(* change, and hides it 1500 ms after that stopped (lines 1056-1088).      *)
(* Spec is the hook on its own with two operations; SpecRefresh,           *)
(* SpecFilament and SpecLive are the hook with one operation and the       *)
(* snapshots and instants of its detectors; SpecCard is the hook inside    *)
(* the component and SpecProgress adds the card.                           *)
(***************************************************************************)
EXTENDS Integers, Sequences, FiniteSets, TLC

VARIABLES
    state,                      \* useState<OperationState>, as rendered
    context,                    \* useState<OperationContext | null>, as rendered
    lastOperationType,          \* useState<'load' | 'unload' | null>, as rendered
    pendingState,               \* value queued by setState (= state when none)
    pendingContext,             \* value queued by setContext
    pendingLastOp,              \* value queued by setLastOperationType
    delivered,                  \* the props of a telemetry delivery that React has
                                \* not rendered yet: None or Some(snapshot)
    effectsDue,                 \* the hook's passive effects scheduled by the last
                                \* render and not yet run
    amsUnits,                   \* prop: status.ams
    amsStatusMain,              \* prop: status.ams_status_main
    trayNow,                    \* prop: status.tray_now
    lastAmsUpdate,              \* prop: status.last_ams_update
    prevAmsStatusMainRef,       \* useRef(amsStatusMain)
    refreshInitialDataRef,      \* useRef<string>('')
    refreshInitialAmsUpdateRef, \* useRef<number>(0)
    timeoutRef,                 \* useRef<Timeout | null>: None or Some(id of a timer)
    timers,                     \* the JS timers armed and not yet fired or cleared
    inflight,                   \* mutations dispatched whose callback has not run
    now,                        \* Date.now()
    accepted,                   \* number of request calls that passed the IDLE guard
    dispatched,                 \* number of commands handed to the command sink
    logs,                       \* outcome lines logged or toasted by the last step
    sawActive,                  \* history: since the running load/unload was accepted
                                \* a snapshot with ams_status_main = 1 was "delivered"
                                \* and waits for the render, or was "rendered"; "no"
                                \* otherwise
    showFilamentChangeCard,     \* AMSSectionDual: useState(false), as rendered
    hideTimeoutRef,             \* AMSSectionDual: useRef<Timeout | null>: None or
                                \* Some(deadline of a hide timer)
    hideTimers,                 \* deadlines of the hide timers armed and not yet
                                \* fired or cleared
    pendingShow,                \* value queued by setShowFilamentChangeCard
    cardEffectsDue,             \* the component's and the card's passive effects
                                \* scheduled by the last render and not yet run
    filamentChangeCard,         \* FilamentChangeCard: its state and refs while it
                                \* is mounted
    lookup,                     \* a tray lookup of AMSSectionDual: arguments, result
    stepView                    \* a step list of FilamentChangeCard: props, result

vars == <<state, context, lastOperationType, pendingState, pendingContext,
          pendingLastOp, delivered, effectsDue, pendingShow, cardEffectsDue, amsUnits, amsStatusMain, trayNow, lastAmsUpdate,
          prevAmsStatusMainRef, refreshInitialDataRef, refreshInitialAmsUpdateRef,
          timeoutRef, timers, inflight, now, accepted, dispatched, logs,
          sawActive, showFilamentChangeCard, hideTimeoutRef, hideTimers,
          filamentChangeCard, lookup, stepView>>

(***************************************************************************)
(* Program constants.                                                      *)
(***************************************************************************)
REFRESH_TIMEOUT_MS == 15000

FILAMENT_CHANGE_TIMEOUT_MS == 120000

RefreshDataGuardMs == 1000

RefreshUpdateGuardMs == 8000

LoadTrayGuardMs == 5000

UnloadTrayGuardMs == 1000

TrayNone == 255

TrayExternal == 254

AmsFilamentChange == 1

HideDelayMs == 1500

AmsIdle == 0

(***************************************************************************)
(* Bounds of the model.                                                    *)
(***************************************************************************)
\* accepted requests per run
MaxOps == 2

\* largest value of the backend's last_ams_update counter
MaxAmsUpdate == 1

\* telemetry and requests stop arriving after this much time; timers still fire
MaxTime == 9000

\* Date.now() when the hook mounts (never 0 in a running browser)
BootTime == 1000

\* A JS value that may be null/undefined is a sequence of length 0 or 1.
None == <<>>

Some(x) == <<x>>

IsSome(o) == o # <<>>

Get(o) == o[1]

\* the card is not mounted and none of its timers is armed
Unmounted == [mounted |-> FALSE, completionTimers |-> {}]

\* no lookup was made, no step list computed
NotCalled == [done |-> FALSE]

(***************************************************************************)
(* Telemetry: AMS units with their trays.  A tray carries the four fields  *)
(* of the identification signature and a fill level that is not part of it.*)
(***************************************************************************)
Tray(id, tag, remain) ==
    [id |-> id, tag_uid |-> tag, tray_uuid |-> "uuid", tray_type |-> "PLA",
     tray_color |-> "FF0000FF", remain |-> remain]

Unit(id, trays) == [id |-> id, tray |-> trays]

AmsStatusValues == {0, 1, 2}

TrayNowValues == {0, 1, TrayExternal, TrayNone}

AmsUnitsValues ==
    { <<Unit(0, <<Tray(0, "tagA", 50), Tray(1, "tagA", 50)>>)>>,
      <<Unit(0, <<Tray(0, "tagB", 50), Tray(1, "tagA", 50)>>)>>,
      <<Unit(0, <<Tray(0, "tagA", 40), Tray(1, "tagB", 50)>>)>>,
      <<Unit(0, <<Tray(1, "tagA", 50)>>)>> }

BaseUnits == <<Unit(0, <<Tray(0, "tagA", 50), Tray(1, "tagA", 50)>>)>>

\* snapshots with the feed hardware at rest: the tray data varies
RestSnapshots ==
    {[amsUnits |-> u, amsStatusMain |-> AmsIdle, trayNow |-> TrayNone] :
        u \in AmsUnitsValues}

\* the snapshots the telemetry source may deliver: at rest, or the status and
\* the loaded tray vary over unchanged tray data
Snapshots ==
    RestSnapshots
    \cup {[amsUnits |-> BaseUnits, amsStatusMain |-> m, trayNow |-> t] :
            m \in {AmsIdle, AmsFilamentChange}, t \in TrayNowValues}
    \cup {[amsUnits |-> BaseUnits, amsStatusMain |-> m, trayNow |-> TrayNone] :
            m \in AmsStatusValues}

\* last_ams_update of a delivered snapshot: the backend stamps a new value
\* when it re-sends the tray data
Updates(sn, last) ==
    IF sn \in RestSnapshots THEN {last, last + 1} ELSE {last}

\* (amsId, trayId) pairs a caller may ask to refresh
RefreshTargets == {<<0, 0>>}

\* global tray ids a caller may ask to load
LoadTargets == {0, 1}

ExtruderHints == {None, Some(0), Some(1)}

(***************************************************************************)
(* Pure helpers.                                                           *)
(***************************************************************************)
MinOf(S) == CHOOSE x \in S : \A y \in S : x <= y

\* JSON.stringify({tag_uid, tray_uuid, tray_type, tray_color})
TraySignature(tray) ==
    "{tag_uid:" \o tray.tag_uid \o ",tray_uuid:" \o tray.tray_uuid \o
    ",tray_type:" \o tray.tray_type \o ",tray_color:" \o tray.tray_color \o "}"

\* amsUnits.find(u => u.id === amsId)
FindUnit(units, amsId) ==
    LET hit == {i \in 1..Len(units) : units[i].id = amsId}
    IN  IF hit = {} THEN None ELSE Some(units[MinOf(hit)])

\* unit?.tray?.find(t => t.id === trayId)
FindTray(units, amsId, trayId) ==
    LET unit == FindUnit(units, amsId)
    IN  IF ~IsSome(unit) THEN None
        ELSE LET trays == Get(unit).tray
                 hit == {i \in 1..Len(trays) : trays[i].id = trayId}
             IN  IF hit = {} THEN None ELSE Some(trays[MinOf(hit)])

\* context?.startTime ? Date.now() - context.startTime : 0
ElapsedOrZero(ctx, t) ==
    IF IsSome(ctx) /\ Get(ctx).startTime # 0 THEN t - Get(ctx).startTime ELSE 0

(***************************************************************************)
(* The hook's mutable store as the callbacks see it while they run: the    *)
(* queued React state and the refs.                                        *)
(***************************************************************************)
Store ==
    [state |-> pendingState, context |-> pendingContext, lastOp |-> pendingLastOp,
     timeoutRef |-> timeoutRef, timers |-> timers,
     data |-> refreshInitialDataRef, upd |-> refreshInitialAmsUpdateRef,
     prev |-> prevAmsStatusMainRef, inflight |-> inflight,
     accepted |-> accepted, dispatched |-> dispatched, logs |-> {}]

\* what the last render saw
Rendered ==
    [state |-> state, context |-> context, amsUnits |-> amsUnits,
     amsStatusMain |-> amsStatusMain, trayNow |-> trayNow,
     lastAmsUpdate |-> lastAmsUpdate]

Log(h, line) == [h EXCEPT !.logs = @ \cup {line}]

\* clearOperationTimeout
clearOperationTimeout(h) ==
    IF IsSome(h.timeoutRef)
    THEN [h EXCEPT !.timers = {tm \in @ : tm.id # Get(h.timeoutRef)},
                   !.timeoutRef = None]
    ELSE h

\* a reset that also forgets the last filament operation
resetClearsLastOp(h) ==
    [clearOperationTimeout(h) EXCEPT !.state = "IDLE", !.context = None,
                                     !.data = "", !.upd = 0, !.lastOp = "null"]

\* a reset that leaves the context in place
resetKeepContext(h) ==
    [clearOperationTimeout(h) EXCEPT !.state = "IDLE", !.data = "", !.upd = 0]

\* reset(): back to IDLE, context discarded, timeout cleared
reset(h) ==
    [clearOperationTimeout(h) EXCEPT !.state = "IDLE", !.context = None,
                                     !.data = "", !.upd = 0]

(***************************************************************************)
(* Completion detection: the four effects.  r is the render they belong to *)
(* (their closure), t is Date.now() when they run.                         *)
(***************************************************************************)
\* a refresh effect that takes a new last_ams_update as completion even
\* when the target tray is missing from the snapshot
RefreshEffectAbsentTray(r, t, h) ==
    IF r.state # "REFRESHING" \/ ~IsSome(r.context) THEN h
    ELSE IF ~IsSome(Get(r.context).refreshTarget) THEN h
    ELSE
    LET target == Get(Get(r.context).refreshTarget)
        elapsed == t - Get(r.context).startTime
        tray == FindTray(r.amsUnits, target.amsId, target.trayId)
        amsUpdateChanged == r.lastAmsUpdate # h.upd
    IN  IF ~IsSome(tray)
        THEN IF amsUpdateChanged /\ elapsed > RefreshUpdateGuardMs
             THEN reset(Log(h, "Refresh complete: new AMS update"))
             ELSE h
        ELSE
        LET currentData == TraySignature(Get(tray))
            dataChanged == h.data # "" /\ currentData # h.data
        IN  IF dataChanged /\ elapsed > RefreshDataGuardMs
            THEN reset(Log(h, "Refresh complete: data changed"))
            ELSE IF amsUpdateChanged /\ elapsed > RefreshUpdateGuardMs
            THEN reset(Log(h, "Refresh complete: new AMS update"))
            ELSE h

\* the refresh effect without the minimum wait of the data-change path
RefreshEffectNoWait(r, t, h) ==
    IF r.state # "REFRESHING" \/ ~IsSome(r.context) THEN h
    ELSE IF ~IsSome(Get(r.context).refreshTarget) THEN h
    ELSE
    LET target == Get(Get(r.context).refreshTarget)
        elapsed == t - Get(r.context).startTime
        tray == FindTray(r.amsUnits, target.amsId, target.trayId)
    IN  IF ~IsSome(tray) THEN h
        ELSE
        LET currentData == TraySignature(Get(tray))
            dataChanged == h.data # "" /\ currentData # h.data
            amsUpdateChanged == r.lastAmsUpdate # h.upd
        IN  IF dataChanged
            THEN reset(Log(h, "Refresh complete: data changed"))
            ELSE IF amsUpdateChanged /\ elapsed > RefreshUpdateGuardMs
            THEN reset(Log(h, "Refresh complete: new AMS update"))
            ELSE h

\* the refresh effect without the minimum wait of the new-update path
RefreshEffectNoSlowWait(r, t, h) ==
    IF r.state # "REFRESHING" \/ ~IsSome(r.context) THEN h
    ELSE IF ~IsSome(Get(r.context).refreshTarget) THEN h
    ELSE
    LET target == Get(Get(r.context).refreshTarget)
        elapsed == t - Get(r.context).startTime
        tray == FindTray(r.amsUnits, target.amsId, target.trayId)
    IN  IF ~IsSome(tray) THEN h
        ELSE
        LET currentData == TraySignature(Get(tray))
            dataChanged == h.data # "" /\ currentData # h.data
            amsUpdateChanged == r.lastAmsUpdate # h.upd
        IN  IF dataChanged /\ elapsed > RefreshDataGuardMs
            THEN reset(Log(h, "Refresh complete: data changed"))
            ELSE IF amsUpdateChanged
            THEN reset(Log(h, "Refresh complete: new AMS update"))
            ELSE h

\* useEffect [state, context, amsUnits, lastAmsUpdate, reset]
RefreshEffect(r, t, h) ==
    IF r.state # "REFRESHING" \/ ~IsSome(r.context) THEN h
    ELSE IF ~IsSome(Get(r.context).refreshTarget) THEN h
    ELSE
    LET target == Get(Get(r.context).refreshTarget)
        elapsed == t - Get(r.context).startTime
        tray == FindTray(r.amsUnits, target.amsId, target.trayId)
    IN  IF ~IsSome(tray) THEN h
        ELSE
        LET currentData == TraySignature(Get(tray))
            dataChanged == h.data # "" /\ currentData # h.data
            amsUpdateChanged == r.lastAmsUpdate # h.upd
        IN  IF dataChanged /\ elapsed > RefreshDataGuardMs
            THEN reset(Log(h, "Refresh complete: data changed"))
            ELSE IF amsUpdateChanged /\ elapsed > RefreshUpdateGuardMs
            THEN reset(Log(h, "Refresh complete: new AMS update"))
            ELSE h

\* a status effect that adopts a filament change the printer started itself
StatusEdgeEffectAdopt(r, h) ==
    IF r.state # "LOADING" /\ r.state # "UNLOADING"
    THEN IF r.state = "IDLE" /\ r.amsStatusMain = AmsFilamentChange
         THEN [h EXCEPT !.prev = r.amsStatusMain, !.state = "LOADING"]
         ELSE [h EXCEPT !.prev = r.amsStatusMain]
    ELSE
    LET wasActive == h.prev = AmsFilamentChange
        isNowIdle == r.amsStatusMain = AmsIdle
        h1 == IF wasActive /\ isNowIdle
              THEN reset(Log(h, "complete: ams_status_main transitioned 1->0"))
              ELSE h
    IN  [h1 EXCEPT !.prev = r.amsStatusMain]

\* useEffect [state, amsStatusMain, reset]
StatusEdgeEffect(r, h) ==
    IF r.state # "LOADING" /\ r.state # "UNLOADING"
    THEN [h EXCEPT !.prev = r.amsStatusMain]
    ELSE
    LET wasActive == h.prev = AmsFilamentChange
        isNowIdle == r.amsStatusMain = AmsIdle
        h1 == IF wasActive /\ isNowIdle
              THEN reset(Log(h, "complete: ams_status_main transitioned 1->0"))
              ELSE h
    IN  [h1 EXCEPT !.prev = r.amsStatusMain]

\* useEffect [state, context, trayNow, reset]  (LOAD)
LoadTrayNowEffect(r, t, h) ==
    IF r.state # "LOADING" \/ ~IsSome(r.context) THEN h
    ELSE IF ~IsSome(Get(r.context).loadTargetTrayId)
            \/ Get(Get(r.context).loadTargetTrayId) = 0 THEN h
    ELSE
    LET elapsed == ElapsedOrZero(r.context, t)
    IN  IF r.trayNow = Get(Get(r.context).loadTargetTrayId) /\ elapsed > LoadTrayGuardMs
        THEN reset(Log(h, "Load complete: tray_now matches target"))
        ELSE h

\* the unload effect without its minimum wait
UnloadTrayNowEffectNoWait(r, t, h) ==
    IF r.state # "UNLOADING" THEN h
    ELSE IF r.trayNow = TrayNone
         THEN reset(Log(h, "Unload complete: tray_now=255"))
         ELSE h

\* useEffect [state, context, trayNow, reset]  (UNLOAD)
UnloadTrayNowEffect(r, t, h) ==
    IF r.state # "UNLOADING" THEN h
    ELSE
    LET elapsed == ElapsedOrZero(r.context, t)
    IN  IF r.trayNow = TrayNone /\ elapsed > UnloadTrayGuardMs
        THEN reset(Log(h, "Unload complete: tray_now=255"))
        ELSE h

(***************************************************************************)
(* A render and its passive effects.  React commits the queued state and   *)
(* the delivered props, and schedules the effects one of whose             *)
(* dependencies changed since the render before; the scheduled effects run *)
(* later, in source order, in a task of their own.                         *)
(***************************************************************************)
\* the dependency arrays: the effects that the render r schedules when it
\* follows the render old; fresh: r brings a telemetry delivery (new amsUnits)
EffectsDue(old, r, fresh) ==
    LET stateCh == old.state # r.state
        ctxCh == old.context # r.context
    IN  (IF stateCh \/ ctxCh \/ fresh \/ old.lastAmsUpdate # r.lastAmsUpdate
         THEN {"refresh"} ELSE {})
        \cup (IF stateCh \/ old.amsStatusMain # r.amsStatusMain
              THEN {"status"} ELSE {})
        \cup (IF stateCh \/ ctxCh \/ old.trayNow # r.trayNow
              THEN {"load", "unload"} ELSE {})

\* the scheduled effects run in source order; r is the render they belong to
RunEffects(due, r, t, h) ==
    LET h1 == IF "refresh" \in due THEN RefreshEffect(r, t, h) ELSE h
        h2 == IF "status" \in due THEN StatusEdgeEffect(r, h1) ELSE h1
        h3 == IF "load" \in due THEN LoadTrayNowEffect(r, t, h2) ELSE h2
        h4 == IF "unload" \in due THEN UnloadTrayNowEffect(r, t, h3) ELSE h3
    IN  h4

\* nothing the program holds depends on the time: while that is so the
\* clock reads BootTime again
Rebased(st, ctx, tms) ==
    IF /\ st = "IDLE" /\ state = "IDLE"
       /\ ctx = None /\ context = None
       /\ tms = {}
       /\ hideTimers = {}
       /\ filamentChangeCard = Unmounted
    THEN BootTime ELSE now

\* write a store back: the React state stays queued until the next render
Queued(h) ==
    /\ pendingState' = h.state
    /\ pendingContext' = h.context
    /\ pendingLastOp' = h.lastOp
    /\ timeoutRef' = h.timeoutRef
    /\ timers' = h.timers
    /\ refreshInitialDataRef' = h.data
    /\ refreshInitialAmsUpdateRef' = h.upd
    /\ prevAmsStatusMainRef' = h.prev
    /\ inflight' = h.inflight
    /\ accepted' = h.accepted
    /\ dispatched' = h.dispatched
    /\ logs' = h.logs
    /\ now' = Rebased(h.state, h.context, h.timers)
    /\ UNCHANGED <<state, context, lastOperationType>>

\* some setState is queued and React has not rendered yet
RenderPending ==
    \/ pendingState # state
    \/ pendingContext # context
    \/ pendingLastOp # lastOperationType

(***************************************************************************)
(* Operation triggers.  Each closes over the rendered state.               *)
(***************************************************************************)
\* a request that arms no timeout
SetNoTimeout(h, t, ms, line) == h

\* timeoutRef.current = setTimeout(() => { console.log(line); reset() }, ms)
SetOperationTimeout(h, t, ms, line) ==
    [h EXCEPT !.timers = @ \cup {[id |-> h.accepted + 1, deadline |-> t + ms,
                                   line |-> line]},
              !.timeoutRef = Some(h.accepted + 1)]

\* <kind>Mutation.mutate(...): the command goes to the command sink
Mutate(h, kind) ==
    [h EXCEPT !.inflight = @ \cup {[id |-> h.accepted + 1, kind |-> kind]},
              !.dispatched = @ + 1,
              !.accepted = @ + 1]

startRefresh(amsId, trayId, h) ==
    IF state # "IDLE"
    THEN Log(h, "Cannot start - operation in progress")
    ELSE
    LET tray == FindTray(amsUnits, amsId, trayId)
        h1 == IF IsSome(tray) THEN [h EXCEPT !.data = TraySignature(Get(tray))] ELSE h
        h2 == [h1 EXCEPT !.upd = lastAmsUpdate]
        h3 == [h2 EXCEPT
                 !.state = "REFRESHING",
                 !.context = Some([refreshTarget |-> Some([amsId |-> amsId, trayId |-> trayId]),
                                   loadTargetTrayId |-> None,
                                   startTime |-> now])]
        h4 == SetOperationTimeout(h3, now, REFRESH_TIMEOUT_MS, "Refresh timeout")
    IN  Mutate(h4, "refresh")

\* startLoad without the single-flight guard
startLoadUnguarded(trayId, extruderId, h) ==
    LET h1 == [h EXCEPT
                 !.state = "LOADING",
                 !.context = Some([refreshTarget |-> None,
                                   loadTargetTrayId |-> Some(trayId),
                                   startTime |-> now]),
                 !.lastOp = "load"]
        h2 == SetOperationTimeout(h1, now, FILAMENT_CHANGE_TIMEOUT_MS, "Load timeout")
    IN  Mutate(h2, "load")

startLoad(trayId, extruderId, h) ==
    IF state # "IDLE"
    THEN Log(h, "Cannot start - operation in progress")
    ELSE
    LET h1 == [h EXCEPT
                 !.state = "LOADING",
                 !.context = Some([refreshTarget |-> None,
                                   loadTargetTrayId |-> Some(trayId),
                                   startTime |-> now]),
                 !.lastOp = "load"]
        h2 == SetOperationTimeout(h1, now, FILAMENT_CHANGE_TIMEOUT_MS, "Load timeout")
    IN  Mutate(h2, "load")

\* startUnload that rejects only while another filament change runs
startUnloadOverRefresh(h) ==
    IF state \in {"LOADING", "UNLOADING"}
    THEN Log(h, "Cannot start - operation in progress")
    ELSE
    LET h1 == [h EXCEPT
                 !.state = "UNLOADING",
                 !.context = Some([refreshTarget |-> None,
                                   loadTargetTrayId |-> None,
                                   startTime |-> now]),
                 !.lastOp = "unload"]
        h2 == SetOperationTimeout(h1, now, FILAMENT_CHANGE_TIMEOUT_MS, "Unload timeout")
    IN  Mutate(h2, "unload")

startUnload(h) ==
    IF state # "IDLE"
    THEN Log(h, "Cannot start - operation in progress")
    ELSE
    LET h1 == [h EXCEPT
                 !.state = "UNLOADING",
                 !.context = Some([refreshTarget |-> None,
                                   loadTargetTrayId |-> None,
                                   startTime |-> now]),
                 !.lastOp = "unload"]
        h2 == SetOperationTimeout(h1, now, FILAMENT_CHANGE_TIMEOUT_MS, "Unload timeout")
    IN  Mutate(h2, "unload")

(***************************************************************************)
(* Mutation callbacks.                                                     *)
(***************************************************************************)
\* refreshMutation.onSuccess(data); the success toast is not recorded
refreshOnSuccess(success, h) ==
    IF success THEN h
    ELSE reset(Log(h, "toast error: Failed to refresh tray"))

\* refreshMutation.onError
refreshOnError(h) == reset(Log(h, "toast error: Failed to refresh tray"))

\* loadMutation.onSuccess(data): data is only logged
loadOnSuccess(success, h) == h

\* a loadMutation.onError that sends the command again
loadOnErrorRetry(h) ==
    [h EXCEPT !.inflight = @ \cup {[id |-> h.accepted + 1, kind |-> "load"]},
              !.dispatched = @ + 1,
              !.logs = @ \cup {"Load error"}]

\* loadMutation.onError
loadOnError(h) == reset(Log(h, "Load error"))

\* unloadMutation.onSuccess(data): data is only logged
unloadOnSuccess(success, h) == h

\* unloadMutation.onError
unloadOnError(h) == reset(Log(h, "Unload error"))

onSuccess(m, success, h) ==
    IF m.kind = "refresh" THEN refreshOnSuccess(success, h)
    ELSE IF m.kind = "load" THEN loadOnSuccess(success, h)
    ELSE unloadOnSuccess(success, h)

onError(m, h) ==
    IF m.kind = "refresh" THEN refreshOnError(h)
    ELSE IF m.kind = "load" THEN loadOnError(h)
    ELSE unloadOnError(h)

(***************************************************************************)
(* The state machine.                                                      *)
(***************************************************************************)
\* the hook and the debouncer after the first render
InitHook ==
    /\ state = "IDLE"
    /\ context = None
    /\ lastOperationType = "null"
    /\ pendingState = "IDLE"
    /\ pendingContext = None
    /\ pendingLastOp = "null"
    /\ amsUnits = BaseUnits
    /\ amsStatusMain = AmsIdle
    /\ trayNow = TrayNone
    /\ lastAmsUpdate = 0
    /\ prevAmsStatusMainRef = AmsIdle
    /\ refreshInitialDataRef = ""
    /\ refreshInitialAmsUpdateRef = 0
    /\ timeoutRef = None
    /\ timers = {}
    /\ inflight = {}
    /\ now = BootTime
    /\ accepted = 0
    /\ dispatched = 0
    /\ logs = {}
    /\ sawActive = "no"
    /\ delivered = None
    /\ effectsDue = {}
    /\ showFilamentChangeCard = FALSE
    /\ hideTimeoutRef = None
    /\ hideTimers = {}
    /\ pendingShow = FALSE
    /\ cardEffectsDue = {}

Init ==
    /\ InitHook
    /\ filamentChangeCard = Unmounted
    /\ lookup = NotCalled
    /\ stepView = NotCalled

props == <<amsUnits, amsStatusMain, trayNow, lastAmsUpdate>>

\* the caller and the telemetry source are still active
InputsOpen == now <= BootTime + MaxTime

FilamentStates == {"LOADING", "UNLOADING"}

\* the history variable after a callback or an effect that leaves the
\* store h: an accepted request starts from "no", a load/unload that is
\* still running keeps what it saw
History(h) ==
    sawActive' = IF h.accepted = accepted /\ h.state \in FilamentStates
                 THEN sawActive ELSE "no"

\* a callback runs: React renders nothing and runs no effect while it does
CallbackOnly == UNCHANGED <<props, delivered, effectsDue>>

\* a request is made through the callbacks of the last render; the caller
\* stops asking once MaxOps requests were accepted
StartRefresh(amsId, trayId) ==
    /\ InputsOpen
    /\ accepted < MaxOps
    /\ Queued(startRefresh(amsId, trayId, Store))
    /\ History(startRefresh(amsId, trayId, Store))
    /\ CallbackOnly

StartLoad(trayId, extruderId) ==
    /\ InputsOpen
    /\ accepted < MaxOps
    /\ Queued(startLoad(trayId, extruderId, Store))
    /\ History(startLoad(trayId, extruderId, Store))
    /\ CallbackOnly

StartUnload ==
    /\ InputsOpen
    /\ accepted < MaxOps
    /\ Queued(startUnload(Store))
    /\ History(startUnload(Store))
    /\ CallbackOnly

\* the public reset() (manual cancel)
Reset ==
    /\ InputsOpen
    /\ Queued(reset(Store))
    /\ History(reset(Store))
    /\ CallbackOnly

\* last_ams_update of the latest snapshot the telemetry source sent
LatestAmsUpdate ==
    IF IsSome(delivered) THEN Get(delivered).lastAmsUpdate ELSE lastAmsUpdate

\* a telemetry snapshot arrives: the parent holds new props for the hook,
\* nothing is rendered yet
Telemetry(units, main, tray, upd) ==
    /\ InputsOpen
    /\ delivered' = Some([amsUnits |-> units, amsStatusMain |-> main,
                          trayNow |-> tray, lastAmsUpdate |-> upd])
    /\ logs' = {}
    /\ UNCHANGED <<state, context, lastOperationType, pendingState, pendingContext,
                   pendingLastOp, props, effectsDue, prevAmsStatusMainRef,
                   refreshInitialDataRef, refreshInitialAmsUpdateRef, timeoutRef,
                   timers, inflight, now, accepted, dispatched>>
    /\ sawActive' = IF sawActive = "rendered" \/ pendingState \notin FilamentStates
                    THEN sawActive
                    ELSE IF main = AmsFilamentChange THEN "delivered" ELSE "no"

\* the props of the next render
NextProps ==
    IF IsSome(delivered) THEN Get(delivered)
    ELSE [amsUnits |-> amsUnits, amsStatusMain |-> amsStatusMain,
          trayNow |-> trayNow, lastAmsUpdate |-> lastAmsUpdate]

\* what the next render will see
NextRendered ==
    [state |-> pendingState, context |-> pendingContext,
     amsUnits |-> NextProps.amsUnits, amsStatusMain |-> NextProps.amsStatusMain,
     trayNow |-> NextProps.trayNow, lastAmsUpdate |-> NextProps.lastAmsUpdate]

\* the hook's part of a render: the queued state and the delivered props
\* are committed, the effects whose dependencies changed are scheduled
Commit ==
    /\ state' = pendingState
    /\ context' = pendingContext
    /\ lastOperationType' = pendingLastOp
    /\ amsUnits' = NextProps.amsUnits
    /\ amsStatusMain' = NextProps.amsStatusMain
    /\ trayNow' = NextProps.trayNow
    /\ lastAmsUpdate' = NextProps.lastAmsUpdate
    /\ delivered' = None
    /\ effectsDue' = EffectsDue(Rendered, NextRendered, IsSome(delivered))
    /\ logs' = {}
    /\ now' = IF /\ pendingState = "IDLE" /\ pendingContext = None /\ timers = {}
                 /\ hideTimers = {} /\ filamentChangeCard = Unmounted
              THEN BootTime ELSE now
    /\ UNCHANGED <<pendingState, pendingContext, pendingLastOp,
                   prevAmsStatusMainRef, refreshInitialDataRef,
                   refreshInitialAmsUpdateRef, timeoutRef, timers, inflight,
                   accepted, dispatched>>
    /\ sawActive' = IF sawActive = "delivered" THEN "rendered" ELSE sawActive

\* React renders: a setState is queued or props were delivered, and the
\* effects of the render before have run
Render ==
    /\ RenderPending \/ IsSome(delivered)
    /\ effectsDue = {}
    /\ cardEffectsDue = {}
    /\ Commit

\* the hook's part of the task that runs the scheduled effects, each with
\* the values of the render that scheduled it
FlushEffects ==
    /\ Queued(RunEffects(effectsDue, Rendered, now, Store))
    /\ History(RunEffects(effectsDue, Rendered, now, Store))
    /\ effectsDue' = {}
    /\ UNCHANGED <<props, delivered>>

\* React runs the passive effects of the last render
Effects ==
    /\ effectsDue # {}
    /\ FlushEffects

\* a timeout armed by a request fires: its callback logs and calls reset()
TimeoutFires(tm) ==
    /\ tm \in timers
    /\ now >= tm.deadline
    /\ Queued(reset(Log([Store EXCEPT !.timers = @ \ {tm}], tm.line)))
    /\ History(reset(Store))
    /\ CallbackOnly

\* the command sink answers: the mutation's onSuccess runs
MutationSuccess(m, success) ==
    /\ m \in inflight
    /\ Queued(onSuccess(m, success, [Store EXCEPT !.inflight = @ \ {m}]))
    /\ History(onSuccess(m, success, Store))
    /\ CallbackOnly

\* the command sink fails: the mutation's onError runs
MutationError(m) ==
    /\ m \in inflight
    /\ Queued(onError(m, [Store EXCEPT !.inflight = @ \ {m}]))
    /\ History(onError(m, Store))
    /\ CallbackOnly

\* the variables of the hook that the passing of time leaves alone
Clockless ==
    <<state, context, lastOperationType, pendingState, pendingContext,
      pendingLastOp, props, delivered, effectsDue, prevAmsStatusMainRef,
      refreshInitialDataRef, refreshInitialAmsUpdateRef, timeoutRef, timers,
      inflight, accepted, dispatched, sawActive>>

\* time passes, never beyond the deadline of an armed timer; a render or
\* its effects may be waiting to run meanwhile
Tick(p) ==
    /\ state # "IDLE" \/ timers # {} \/ hideTimers # {} \/ filamentChangeCard # Unmounted
    /\ BootTime + p > now
    /\ \A tm \in timers : BootTime + p <= tm.deadline
    /\ \A d \in hideTimers : BootTime + p <= d
    /\ \A tm \in filamentChangeCard.completionTimers : BootTime + p <= tm.deadline
    /\ now' = BootTime + p
    /\ logs' = {}
    /\ UNCHANGED Clockless

\* time passes until the next armed timer is due
WaitForTimer ==
    /\ timers # {}
    /\ now < MinOf({tm.deadline : tm \in timers})
    /\ \A d \in hideTimers : MinOf({tm.deadline : tm \in timers}) <= d
    /\ \A ct \in filamentChangeCard.completionTimers :
          MinOf({tm.deadline : tm \in timers}) <= ct.deadline
    /\ now' = MinOf({tm.deadline : tm \in timers})
    /\ logs' = {}
    /\ UNCHANGED Clockless

\* the hook on its own: nothing of the component changes
HookOnly ==
    UNCHANGED <<showFilamentChangeCard, hideTimeoutRef, hideTimers, pendingShow,
                cardEffectsDue, filamentChangeCard, lookup, stepView>>

\* the snapshots of the specification of the whole protocol: the feed
\* hardware at rest, a filament change with tray 1 loaded, and tray 1 left
\* loaded at rest
HookSnapshots ==
    {sn \in Snapshots :
        /\ sn.amsUnits = BaseUnits
        /\ <<sn.amsStatusMain, sn.trayNow>>
              \in {<<AmsIdle, TrayNone>>, <<AmsFilamentChange, 1>>, <<AmsIdle, 1>>}}

\* the instants of the specification of the whole protocol
HookTimePoints == {1001, 5001}

Next ==
    \/ \E tg \in RefreshTargets : StartRefresh(tg[1], tg[2]) /\ HookOnly
    \/ \E t \in LoadTargets, e \in ExtruderHints : StartLoad(t, e) /\ HookOnly
    \/ StartUnload /\ HookOnly
    \/ Reset /\ HookOnly
    \/ \E sn \in HookSnapshots :
          Telemetry(sn.amsUnits, sn.amsStatusMain, sn.trayNow, LatestAmsUpdate)
          /\ HookOnly
    \/ Render /\ HookOnly
    \/ Effects /\ HookOnly
    \/ \E tm \in timers : TimeoutFires(tm) /\ HookOnly
    \/ \E m \in inflight, ok \in BOOLEAN : MutationSuccess(m, ok) /\ HookOnly
    \/ \E m \in inflight : MutationError(m) /\ HookOnly
    \/ \E p \in HookTimePoints : Tick(p) /\ HookOnly
    \/ WaitForTimer /\ HookOnly

Spec == Init /\ [][Next]_vars

\* the caller has made no request yet
FirstRequest == accepted = 0

\* the instants of the refresh specification: on and just past the minimum
\* waits of the two refresh detectors
RefreshTimePoints == {1000, 1001, 8000, 8001}

\* one refresh with every tray-data snapshot
NextRefresh ==
    \/ \E tg \in RefreshTargets :
          FirstRequest /\ StartRefresh(tg[1], tg[2]) /\ HookOnly
    \/ Reset /\ HookOnly
    \/ \E sn \in RestSnapshots : \E upd \in Updates(sn, LatestAmsUpdate) :
          upd <= MaxAmsUpdate
          /\ Telemetry(sn.amsUnits, sn.amsStatusMain, sn.trayNow, upd)
          /\ HookOnly
    \/ Render /\ HookOnly
    \/ Effects /\ HookOnly
    \/ \E tm \in timers : TimeoutFires(tm) /\ HookOnly
    \/ \E m \in inflight, ok \in BOOLEAN : MutationSuccess(m, ok) /\ HookOnly
    \/ \E m \in inflight : MutationError(m) /\ HookOnly
    \/ \E p \in RefreshTimePoints : Tick(p) /\ HookOnly
    \/ WaitForTimer /\ HookOnly

SpecRefresh == Init /\ [][NextRefresh]_vars

\* the snapshots of the load/unload specification: the status and the
\* loaded tray vary over unchanged tray data
FilamentSnapshots == {sn \in Snapshots : sn.amsUnits = BaseUnits}

\* the instants of the load/unload specification: on and just past the
\* minimum waits of the two tray_now detectors
FilamentTimePoints == {1000, 1001, 5000, 5001}

\* one load or unload with every status and tray_now snapshot
NextFilament ==
    \/ \E t \in LoadTargets, e \in ExtruderHints :
          FirstRequest /\ StartLoad(t, e) /\ HookOnly
    \/ FirstRequest /\ StartUnload /\ HookOnly
    \/ Reset /\ HookOnly
    \/ \E sn \in FilamentSnapshots :
          Telemetry(sn.amsUnits, sn.amsStatusMain, sn.trayNow, LatestAmsUpdate)
          /\ HookOnly
    \/ Render /\ HookOnly
    \/ Effects /\ HookOnly
    \/ \E tm \in timers : TimeoutFires(tm) /\ HookOnly
    \/ \E m \in inflight, ok \in BOOLEAN : MutationSuccess(m, ok) /\ HookOnly
    \/ \E m \in inflight : MutationError(m) /\ HookOnly
    \/ \E p \in FilamentTimePoints : Tick(p) /\ HookOnly
    \/ WaitForTimer /\ HookOnly

SpecFilament == Init /\ [][NextFilament]_vars

(***************************************************************************)
(* Properties of the coordinator.                                          *)
(***************************************************************************)
\* a step in which the caller makes one of the three requests
RequestStep ==
    \/ \E tg \in RefreshTargets : StartRefresh(tg[1], tg[2])
    \/ \E t \in LoadTargets, e \in ExtruderHints : StartLoad(t, e)
    \/ StartUnload

\* the step changes nothing but the log
OnlyLogged ==
    UNCHANGED <<state, context, lastOperationType, pendingState, pendingContext,
                pendingLastOp, props, delivered, effectsDue, prevAmsStatusMainRef,
                refreshInitialDataRef, refreshInitialAmsUpdateRef, timeoutRef,
                timers, inflight, now, accepted, dispatched>>

\* C1: a request made while the state is not IDLE is rejected and has no
\* side effect: no context is allocated, no command is dispatched, no timer is
\* armed or re-armed, and the last-kind memory keeps its value; moreover no
\* step at all taken from a busy state accepts, dispatches or arms anything.
C1_SingleFlight ==
    [][ state # "IDLE" =>
          /\ RequestStep =>
                /\ "Cannot start - operation in progress" \in logs'
                /\ OnlyLogged
          /\ accepted' = accepted
          /\ dispatched' = dispatched
          /\ inflight' \subseteq inflight
          /\ timers' \subseteq timers
          /\ pendingLastOp' = pendingLastOp
          /\ lastOperationType' = lastOperationType
          /\ pendingContext' \in {pendingContext, None} ]_vars

\* a request has just been rejected while an operation is in flight
C1_Witness ==
    /\ state = "LOADING"
    /\ "Cannot start - operation in progress" \in logs
    /\ accepted = 1
    /\ dispatched = 1
    /\ Cardinality(timers) = 1

\* C2: nothing is retried: commands leave only in the step of an accepted
\* request, one command per accepted request, so the number of commands
\* dispatched always equals the number of requests accepted; completion,
\* timeout, cancel and dispatch failure never dispatch anything.
C2_NoRetry ==
    [][ /\ dispatched' = dispatched \/ dispatched' = dispatched + 1
        /\ dispatched' - dispatched = accepted' - accepted
        /\ dispatched' # dispatched =>
              /\ RequestStep
              /\ state = "IDLE"
              /\ Cardinality(inflight' \ inflight) = 1
        /\ dispatched' = dispatched => inflight' \subseteq inflight ]_vars

\* a load was retired by a dispatch failure and nothing was sent again
C2_Witness ==
    /\ "Load error" \in logs
    /\ pendingState = "IDLE"
    /\ accepted = 1
    /\ dispatched = 1
    /\ inflight = {}

\* the context of a render matches its state
ContextMatches(st, ctx) ==
    /\ st = "IDLE" <=> ctx = None
    /\ st = "REFRESHING" =>
          IsSome(Get(ctx).refreshTarget) /\ Get(ctx).loadTargetTrayId = None
    /\ st = "LOADING" =>
          IsSome(Get(ctx).loadTargetTrayId) /\ Get(ctx).refreshTarget = None
    /\ st = "UNLOADING" =>
          Get(ctx).loadTargetTrayId = None /\ Get(ctx).refreshTarget = None

\* C3: a context exists exactly when the state is not IDLE, and it is of the
\* kind of the state (a refresh target for REFRESHING, a load target for
\* LOADING, neither for UNLOADING); every return to IDLE discards it.
C3_ContextIffBusy ==
    /\ ContextMatches(state, context)
    /\ ContextMatches(pendingState, pendingContext)

\* an unload has been completed by the status edge and the completion was
\* rendered: no context left
C3_Witness ==
    /\ state = "IDLE"
    /\ context = None
    /\ pendingContext = None
    /\ lastOperationType = "unload"
    /\ accepted = 1
    /\ timers = {}
    /\ prevAmsStatusMainRef = AmsIdle

\* C4: the state only ever moves from IDLE to a busy state or from a busy
\* state to IDLE, never from one busy state directly to another.
C4_Transitions ==
    [][ state' # state => state = "IDLE" \/ state' = "IDLE" ]_vars

\* a second operation runs after the first one went back to IDLE
C4_Witness ==
    /\ state = "UNLOADING"
    /\ accepted = 2
    /\ Cardinality(timers) = 1
    /\ lastOperationType = "unload"

\* C5: acceptance is atomic: while an accepted request is outstanding,
\* rendered or not, a further request is not accepted, so two requests made
\* from the same IDLE render are never both accepted; at most one context is
\* allocated, one command dispatched and one timer armed.
C5_AtomicAccept ==
    [][ (RequestStep /\ pendingState # "IDLE") =>
          /\ accepted' = accepted
          /\ dispatched' = dispatched
          /\ timers' = timers
          /\ pendingState' = pendingState
          /\ pendingContext' = pendingContext ]_vars

(***************************************************************************)
(* Progress.  The event loop runs every due timer callback, lets time      *)
(* reach the deadline of an armed timer, and React renders queued state    *)
(* and runs the effects it scheduled.                                      *)
(***************************************************************************)
Fairness ==
    /\ WF_vars(Render /\ HookOnly)
    /\ WF_vars(Effects /\ HookOnly)
    /\ WF_vars(WaitForTimer /\ HookOnly)
    /\ WF_vars(\E tm \in timers : TimeoutFires(tm) /\ HookOnly)

\* the snapshots of the progress specification: the tray data changed, a
\* filament change with tray 1 loaded, and the feed hardware at rest
LiveSnapshots ==
    {sn \in Snapshots :
        \/ sn.amsUnits # BaseUnits /\ FindTray(sn.amsUnits, 0, 0) # None
              /\ TraySignature(Get(FindTray(sn.amsUnits, 0, 0)))
                    # TraySignature(Get(FindTray(BaseUnits, 0, 0)))
        \/ sn.amsUnits = BaseUnits
              /\ <<sn.amsStatusMain, sn.trayNow>>
                    \in {<<AmsIdle, TrayNone>>, <<AmsFilamentChange, 1>>}}

\* the instants of the progress specification
LiveTimePoints == {5001}

NextLive ==
    \/ \E tg \in RefreshTargets :
          FirstRequest /\ StartRefresh(tg[1], tg[2]) /\ HookOnly
    \/ \E t \in {1}, e \in {None} : FirstRequest /\ StartLoad(t, e) /\ HookOnly
    \/ FirstRequest /\ StartUnload /\ HookOnly
    \/ Reset /\ HookOnly
    \/ \E sn \in LiveSnapshots :
          Telemetry(sn.amsUnits, sn.amsStatusMain, sn.trayNow, LatestAmsUpdate)
          /\ HookOnly
    \/ Render /\ HookOnly
    \/ Effects /\ HookOnly
    \/ \E tm \in timers : TimeoutFires(tm) /\ HookOnly
    \/ \E m \in inflight, ok \in BOOLEAN : MutationSuccess(m, ok) /\ HookOnly
    \/ \E m \in inflight : MutationError(m) /\ HookOnly
    \/ \E p \in LiveTimePoints : Tick(p) /\ HookOnly
    \/ WaitForTimer /\ HookOnly

SpecLive == Init /\ [][NextLive]_vars /\ Fairness

\* C6: every accepted request eventually leaves the coordinator in IDLE
\* again, with or without telemetry and with or without an answer from the
\* command sink, given that an armed timer eventually fires.
C6_EventuallyIdle ==
    (state # "IDLE" \/ pendingState # "IDLE") ~>
        (state = "IDLE" /\ pendingState = "IDLE")

\* a load whose command was never answered has been retired by its timeout
C6_Witness ==
    /\ "Load timeout" \in logs
    /\ pendingState = "IDLE"
    /\ \E m \in inflight : m.kind = "load"
    /\ timers = {}

(***************************************************************************)
(* Completion detectors.                                                   *)
(***************************************************************************)
\* the step delivers a snapshot
TelemetryStep ==
    /\ IsSome(delivered')
    /\ Telemetry(Get(delivered').amsUnits, Get(delivered').amsStatusMain,
                 Get(delivered').trayNow, Get(delivered').lastAmsUpdate)

\* the step runs the effects of the last render, the named detector among
\* them: the detector evaluates the snapshot of that render
Evaluates(effect) == Effects /\ effect \in effectsDue

\* the status detector is among the effects to run and will see the status
\* go from 1 to 0
StatusEdge ==
    /\ "status" \in effectsDue
    /\ prevAmsStatusMainRef = AmsFilamentChange
    /\ amsStatusMain = AmsIdle

\* time since the running operation was accepted, when the step is taken
Elapsed == now - Get(context).startTime

\* the step leaves the queued state and context as they were
StaysAsItWas == pendingState' = pendingState /\ pendingContext' = pendingContext

\* C7: once a snapshot with status 1 has been rendered after a load/unload
\* was accepted, the first later snapshot with status 0 completes it
\* whatever was delivered in between, and without such a 1 the status path
\* never completes it.
C7_AnyLaterIdle ==
    [][ (state \in FilamentStates /\ Evaluates("status")) =>
          /\ (sawActive = "rendered" /\ amsStatusMain = AmsIdle) =>
                pendingState' = "IDLE"
          /\ "complete: ams_status_main transitioned 1->0" \in logs' =>
                sawActive = "rendered" ]_vars

\* C8: while LOADING, a snapshot whose tray_now equals the load
\* target completes the load when the detector evaluates it more than 5000 ms
\* after acceptance, leaves it running at 5000 ms or less unless the status
\* path completes it, and the value match never completes it earlier.
C8_LoadValueMatch ==
    [][ /\ (state = "LOADING" /\ Evaluates("load")) =>
              LET target == Get(Get(context).loadTargetTrayId)
              IN  /\ (trayNow = target /\ Elapsed > LoadTrayGuardMs) =>
                        pendingState' = "IDLE"
                  /\ (trayNow = target /\ Elapsed <= LoadTrayGuardMs /\ ~StatusEdge) =>
                        StaysAsItWas
                  /\ "Load complete: tray_now matches target" \in logs' =>
                        trayNow = target /\ Elapsed > LoadTrayGuardMs
        /\ "Load complete: tray_now matches target" \in logs' =>
              state = "LOADING" /\ Evaluates("load") ]_vars

\* C9: while UNLOADING, a snapshot whose tray_now is 255 completes the unload
\* when the detector evaluates it more than 1000 ms after acceptance and
\* leaves it running at 1000 ms or less; any other tray_now, 254 included,
\* never completes it through the value match.
C9_UnloadValueMatch ==
    [][ /\ (state = "UNLOADING" /\ Evaluates("unload")) =>
              /\ (trayNow = TrayNone /\ Elapsed > UnloadTrayGuardMs) =>
                    /\ pendingState' = "IDLE"
                    /\ pendingContext' = None
                    /\ "Unload complete: tray_now=255" \in logs'
              /\ (trayNow = TrayNone /\ Elapsed <= UnloadTrayGuardMs /\ ~StatusEdge) =>
                    StaysAsItWas /\ logs' = {}
              /\ (trayNow # TrayNone /\ ~StatusEdge) => StaysAsItWas /\ logs' = {}
              /\ "Unload complete: tray_now=255" \in logs' =>
                    trayNow = TrayNone /\ Elapsed > UnloadTrayGuardMs
        /\ "Unload complete: tray_now=255" \in logs' =>
              state = "UNLOADING" /\ Evaluates("unload") ]_vars

\* an unload has been completed by tray_now = 255, evaluated just past the
\* minimum wait, with the status never at 1
C9_Witness ==
    /\ "Unload complete: tray_now=255" \in logs
    /\ "complete: ams_status_main transitioned 1->0" \notin logs
    /\ pendingState = "IDLE"
    /\ state = "UNLOADING"
    /\ now = Get(context).startTime + UnloadTrayGuardMs + 1
    /\ trayNow = TrayNone
    /\ sawActive = "no"
    /\ pendingLastOp = "unload"

\* the target tray of the running refresh in the rendered snapshot
TargetTrayDelivered ==
    LET target == Get(Get(context).refreshTarget)
    IN  FindTray(amsUnits, target.amsId, target.trayId)

\* the rendered snapshot shows the target slot with another signature than
\* the one captured at the request
SignatureDiffers ==
    /\ IsSome(TargetTrayDelivered)
    /\ TraySignature(Get(TargetTrayDelivered)) # refreshInitialDataRef

\* C10: an accepted refresh captures the signature of its target slot; while
\* REFRESHING with a captured signature, a snapshot in which the target slot's
\* signature differs completes the refresh when evaluated more than 1000 ms
\* after acceptance and leaves it running at 1000 ms or less; a snapshot in
\* which only other slots or other fields changed never completes it through
\* the data-change path.
C10_RefreshFastPath ==
    [][ /\ (state = "REFRESHING" /\ Evaluates("refresh") /\ refreshInitialDataRef # "") =>
              /\ (SignatureDiffers /\ Elapsed > RefreshDataGuardMs) =>
                    /\ pendingState' = "IDLE"
                    /\ pendingContext' = None
                    /\ "Refresh complete: data changed" \in logs'
              /\ (SignatureDiffers /\ Elapsed <= RefreshDataGuardMs) =>
                    StaysAsItWas /\ logs' = {}
              /\ ~SignatureDiffers =>
                    "Refresh complete: data changed" \notin logs'
        /\ "Refresh complete: data changed" \in logs' =>
              /\ state = "REFRESHING" /\ Evaluates("refresh")
              /\ refreshInitialDataRef # ""
        /\ (state = "IDLE" /\ pendingState' = "REFRESHING" /\ accepted' # accepted) =>
              \A tg \in RefreshTargets :
                 (Get(pendingContext').refreshTarget
                     = Some([amsId |-> tg[1], trayId |-> tg[2]])
                  /\ IsSome(FindTray(amsUnits, tg[1], tg[2]))) =>
                    refreshInitialDataRef'
                       = TraySignature(Get(FindTray(amsUnits, tg[1], tg[2]))) ]_vars

\* a refresh has been completed by a changed tag on its target slot,
\* evaluated just past the minimum wait
C10_Witness ==
    /\ "Refresh complete: data changed" \in logs
    /\ "Refresh complete: new AMS update" \notin logs
    /\ pendingState = "IDLE"
    /\ state = "REFRESHING"
    /\ now = Get(context).startTime + RefreshDataGuardMs + 1
    /\ IsSome(FindTray(amsUnits, 0, 0))
    /\ Get(FindTray(amsUnits, 0, 0)).tag_uid = "tagB"

\* the rendered snapshot shows the target slot with the captured signature
SignatureSame ==
    /\ IsSome(TargetTrayDelivered)
    /\ TraySignature(Get(TargetTrayDelivered)) = refreshInitialDataRef

\* last_ams_update of the rendered snapshot is not the value captured at
\* the request
UpdateAdvanced == lastAmsUpdate # refreshInitialAmsUpdateRef

\* C11: an accepted refresh captures last_ams_update; while REFRESHING, a
\* snapshot that shows the target slot with its captured signature completes
\* the refresh when its last_ams_update differs from the captured value and
\* it is evaluated more than 8000 ms after acceptance, leaves it running at
\* 8000 ms or less, and leaves it running at any time while last_ams_update
\* still has the captured value; the new-update completion occurs in no
\* other step.
C11_RefreshSlowPath ==
    [][ /\ (state = "REFRESHING" /\ Evaluates("refresh") /\ SignatureSame) =>
              /\ (UpdateAdvanced /\ Elapsed > RefreshUpdateGuardMs) =>
                    /\ pendingState' = "IDLE"
                    /\ pendingContext' = None
                    /\ "Refresh complete: new AMS update" \in logs'
              /\ (UpdateAdvanced /\ Elapsed <= RefreshUpdateGuardMs) =>
                    StaysAsItWas /\ logs' = {}
              /\ ~UpdateAdvanced => StaysAsItWas /\ logs' = {}
        /\ "Refresh complete: new AMS update" \in logs' =>
              /\ state = "REFRESHING" /\ Evaluates("refresh")
              /\ UpdateAdvanced /\ Elapsed > RefreshUpdateGuardMs
        /\ (state = "IDLE" /\ pendingState' = "REFRESHING" /\ accepted' # accepted) =>
              refreshInitialAmsUpdateRef' = lastAmsUpdate ]_vars

\* a refresh has been completed by a new last_ams_update with the tag
\* unchanged, evaluated just past the minimum wait
C11_Witness ==
    /\ "Refresh complete: new AMS update" \in logs
    /\ pendingState = "IDLE"
    /\ state = "REFRESHING"
    /\ now = Get(context).startTime + RefreshUpdateGuardMs + 1
    /\ lastAmsUpdate = 1
    /\ IsSome(FindTray(amsUnits, 0, 0))
    /\ Get(FindTray(amsUnits, 0, 0)).tag_uid = "tagA"

(***************************************************************************)
(* Timeouts, dispatch failures and cancel.                                 *)
(***************************************************************************)
\* the step runs the callback of an armed timeout
TimeoutStep == \E tm \in timers : TimeoutFires(tm)

\* the timeout budget of the running operation
Budget(st) ==
    IF st = "REFRESHING" THEN REFRESH_TIMEOUT_MS ELSE FILAMENT_CHANGE_TIMEOUT_MS

\* what a step reports to the caller: an error handed to onToast, or the
\* error of a mutation, which the hook returns as loadError / unloadError
Reported(ls) ==
    ls \cap {"toast error: Failed to refresh tray", "Load error", "Unload error"}

\* time since the operation whose state is queued or rendered was accepted
Age == now - Get(pendingContext).startTime

\* C12: a timeout callback that runs while an operation is outstanding
\* returns the hook to IDLE and discards the context, and it never does so
\* before the operation's budget (15000 ms for a refresh, 120000 ms for a
\* load or unload) has elapsed since acceptance; no operation outlives its
\* budget.
C12_TimeoutBudget ==
    [][ /\ (pendingState # "IDLE" /\ TimeoutStep) =>
              /\ pendingState' = "IDLE"
              /\ pendingContext' = None
              /\ Age >= Budget(pendingState)
        /\ (pendingState' # "IDLE" /\ IsSome(pendingContext')) =>
              now' <= Get(pendingContext').startTime + Budget(pendingState') ]_vars

\* C13: a timeout that retires an operation is reported to the caller as a
\* failure: the step hands the caller an error, which neither a completion
\* nor a manual cancel does.
C13_TimeoutReported ==
    [][ (pendingState # "IDLE" /\ TimeoutStep) => Reported(logs') # {} ]_vars

\* C14: when the command sink answers the command of the running operation
\* with a failure result or with a transport error, the step clears the
\* operation's timer, discards the context, returns to IDLE and reports the
\* error, and it dispatches nothing.
C14_DispatchFailureTerminal ==
    [][ \A m \in inflight :
          ( /\ pendingState # "IDLE"
            /\ m.id = accepted
            /\ MutationSuccess(m, FALSE) \/ MutationError(m) ) =>
              /\ pendingState' = "IDLE"
              /\ pendingContext' = None
              /\ timeoutRef' = None
              /\ \A tm \in timers' : tm.id # m.id
              /\ dispatched' = dispatched
              /\ Reported(logs') # {} ]_vars

\* C15: reset() leaves the hook IDLE with no context and no armed timer
\* and dispatches nothing; called while IDLE it changes nothing; and the
\* store it leaves is one that a further reset() does not change.
C15_CancelIdempotent ==
    [][ Reset =>
          /\ pendingState' = "IDLE"
          /\ pendingContext' = None
          /\ timeoutRef' = None
          /\ timers' = {}
          /\ dispatched' = dispatched /\ inflight' = inflight
          /\ (state = "IDLE" /\ pendingState = "IDLE") =>
                UNCHANGED <<state, context, lastOperationType, pendingState,
                            pendingContext, pendingLastOp, props, delivered,
                            effectsDue, prevAmsStatusMainRef, refreshInitialDataRef,
                            refreshInitialAmsUpdateRef, timeoutRef, timers,
                            inflight, now, accepted, dispatched>>
          /\ (reset(Store) = Store)' ]_vars

\* C16: a timeout callback runs only for the operation that is running and
\* that armed it: the timer of an operation that was retired or superseded
\* never fires, so it causes no transition and retires no other operation.
C16_TimerOnlyForOwnOperation ==
    [][ \A tm \in timers :
          TimeoutFires(tm) => (pendingState # "IDLE" /\ timeoutRef = Some(tm.id)) ]_vars

CompletionLines ==
    {"Refresh complete: data changed", "Refresh complete: new AMS update",
     "complete: ams_status_main transitioned 1->0",
     "Load complete: tray_now matches target", "Unload complete: tray_now=255"}

\* what the hook holds besides the status it saw last
HookStore ==
    <<pendingState, pendingContext, pendingLastOp, refreshInitialDataRef,
      refreshInitialAmsUpdateRef, timeoutRef, timers, inflight, accepted,
      dispatched>>

\* C17: the evaluation that completes an operation leaves the hook IDLE
\* with the context discarded; nothing is accepted before that is rendered,
\* so a snapshot delivered afterwards, the same one again included, is
\* rendered with the state IDLE, and its evaluation changes nothing and
\* completes nothing.
C17_IdempotentCompletion ==
    [][ /\ logs' \cap CompletionLines # {} =>
              /\ Effects
              /\ state # "IDLE"
              /\ pendingState' = "IDLE"
              /\ pendingContext' = None
        /\ (state # "IDLE" /\ pendingState = "IDLE") =>
              /\ pendingState' = "IDLE"
              /\ pendingContext' = None
              /\ Render => state' = "IDLE" /\ context' = None
        /\ (state = "IDLE" /\ Effects) =>
              /\ logs' = {}
              /\ UNCHANGED HookStore ]_vars

\* a load was completed by the value match, the completion was rendered,
\* and the same snapshot has been delivered and rendered again: its
\* evaluation is due
C17_Witness ==
    /\ state = "IDLE"
    /\ context = None
    /\ pendingState = "IDLE"
    /\ lastOperationType = "load"
    /\ accepted = 1
    /\ timers = {}
    /\ trayNow = 1
    /\ amsStatusMain = AmsIdle
    /\ prevAmsStatusMainRef = AmsIdle
    /\ effectsDue = {"refresh"}

\* C20: a snapshot delivered while IDLE leaves the state IDLE, creates no
\* context, arms no timer and dispatches no command, when it is delivered,
\* when it is rendered and when the detectors evaluate it.
C20_IdleTelemetryNoOp ==
    [][ (state = "IDLE" /\ pendingState = "IDLE"
         /\ (TelemetryStep \/ Render \/ Effects)) =>
          /\ state' = "IDLE" /\ pendingState' = "IDLE"
          /\ context' = None /\ pendingContext' = None
          /\ timeoutRef' = timeoutRef /\ timers' = timers
          /\ dispatched' = dispatched /\ inflight' = inflight
          /\ accepted' = accepted ]_vars

\* snapshots with status 1 and a loaded tray were delivered to the idle
\* hook, rendered and evaluated
C20_Witness ==
    /\ state = "IDLE"
    /\ accepted = 0
    /\ amsStatusMain = AmsFilamentChange
    /\ prevAmsStatusMainRef = AmsFilamentChange
    /\ trayNow = 1
    /\ effectsDue = {}
    /\ timers = {}
    /\ dispatched = 0

(***************************************************************************)
(* The component AMSSectionDual around the hook: debounced visibility of   *)
(* the filament change card.  c is the component's store while the effect  *)
(* runs: show is the value queued by setShowFilamentChangeCard, ref is     *)
(* hideTimeoutRef.current, timers the armed hide timers.  The callbacks    *)
(* of the component only queue; React renders and runs the effects later.  *)
(***************************************************************************)
\* shouldShowCard
ShouldShowCard(st, main) ==
    st = "LOADING" \/ st = "UNLOADING" \/ main = AmsFilamentChange

CardStore ==
    [show |-> pendingShow, ref |-> hideTimeoutRef, timers |-> hideTimers]

\* the cleanup returned by the effect: clearTimeout, the ref keeps its value
DebounceCleanup(c) ==
    IF IsSome(c.ref) THEN [c EXCEPT !.timers = @ \ {Get(c.ref)}] ELSE c

\* a debounce effect that shows the card without cancelling a pending hide
DebounceEffectNoCancel(should, show, t, c) ==
    IF should
    THEN [c EXCEPT !.show = TRUE]
    ELSE IF show
    THEN IF ~IsSome(c.ref)
         THEN [c EXCEPT !.timers = @ \cup {t + HideDelayMs},
                        !.ref = Some(t + HideDelayMs)]
         ELSE c
    ELSE c

\* a debounce effect that hides the card at once
DebounceEffectHideNow(should, show, t, c) ==
    IF should
    THEN [c EXCEPT !.timers = IF IsSome(c.ref) THEN @ \ {Get(c.ref)} ELSE @,
                   !.ref = None,
                   !.show = TRUE]
    ELSE IF show
    THEN [c EXCEPT !.show = FALSE]
    ELSE c

\* the body of useEffect [shouldShowCard, showFilamentChangeCard]; show is
\* the rendered showFilamentChangeCard, t is the time when it runs
DebounceEffect(should, show, t, c) ==
    IF should
    THEN [c EXCEPT !.timers = IF IsSome(c.ref) THEN @ \ {Get(c.ref)} ELSE @,
                   !.ref = None,
                   !.show = TRUE]
    ELSE IF show
    THEN IF ~IsSome(c.ref)
         THEN [c EXCEPT !.timers = @ \cup {t + HideDelayMs},
                        !.ref = Some(t + HideDelayMs)]
         ELSE c
    ELSE c

\* shouldShowCard of the last render
Signal == ShouldShowCard(state, amsStatusMain)

\* the debouncer of the component
Debouncer ==
    <<showFilamentChangeCard, pendingShow, hideTimeoutRef, hideTimers, cardEffectsDue>>

\* the hide timer's callback: setShowFilamentChangeCard(false), ref = null
HideTimerFires(d) ==
    /\ d \in hideTimers
    /\ now >= d
    /\ pendingShow' = FALSE
    /\ hideTimeoutRef' = None
    /\ hideTimers' = hideTimers \ {d}
    /\ logs' = {}
    /\ UNCHANGED <<Clockless, now, showFilamentChangeCard, cardEffectsDue>>

\* the debounce effect is scheduled when shouldShowCard or
\* showFilamentChangeCard changes with the render
DebounceDue ==
    IF \/ ShouldShowCard(pendingState, NextProps.amsStatusMain) # Signal
       \/ pendingShow # showFilamentChangeCard
    THEN {"debounce"} ELSE {}

\* the component's part of a render; cardDue: the effects of the card that
\* the render schedules
CardCommit(cardDue) ==
    /\ showFilamentChangeCard' = pendingShow
    /\ cardEffectsDue' = DebounceDue \cup cardDue
    /\ UNCHANGED <<pendingShow, hideTimeoutRef, hideTimers>>

\* AMSSectionDual has something to render
ParentRenderPending ==
    RenderPending \/ IsSome(delivered) \/ pendingShow # showFilamentChangeCard

\* React renders the component
CardRender ==
    /\ ParentRenderPending
    /\ effectsDue = {}
    /\ cardEffectsDue = {}
    /\ Commit
    /\ CardCommit({})

\* the component's part of the task that runs the scheduled effects: the
\* cleanup of the last run of the debounce effect and then the effect
CardFlush ==
    /\ LET c == IF "debounce" \in cardEffectsDue
                THEN DebounceEffect(Signal, showFilamentChangeCard, now',
                                    DebounceCleanup(CardStore))
                ELSE CardStore
       IN  /\ pendingShow' = c.show
           /\ hideTimeoutRef' = c.ref
           /\ hideTimers' = c.timers
    /\ cardEffectsDue' = {}
    /\ UNCHANGED showFilamentChangeCard

\* React runs the passive effects of the last render of the component
CardEffects ==
    /\ effectsDue \cup cardEffectsDue # {}
    /\ FlushEffects
    /\ CardFlush

\* time passes until the next armed hide timer is due
WaitForHide ==
    /\ hideTimers # {}
    /\ now < MinOf(hideTimers)
    /\ \A tm \in timers : MinOf(hideTimers) <= tm.deadline
    /\ \A tm \in filamentChangeCard.completionTimers : MinOf(hideTimers) <= tm.deadline
    /\ now' = MinOf(hideTimers)
    /\ logs' = {}
    /\ UNCHANGED <<Clockless, Debouncer>>

\* the snapshots of the component specification: the status and tray_now
\* values that move shouldShowCard and the load/unload detectors
CardSnapshots ==
    {sn \in Snapshots :
        /\ sn.amsUnits = BaseUnits
        /\ sn.amsStatusMain \in {AmsIdle, AmsFilamentChange}
        /\ sn.trayNow \in {1, TrayNone}}

\* the instants of the component specification: inside the hide delay and
\* beyond the tray_now waits
CardTimePoints == {1000, 1001, 5001}

\* the hook and the debouncer: the card's own state is left out
CardOnly == UNCHANGED <<filamentChangeCard, lookup, stepView>>

\* the callbacks of the hook and the time steps leave the debouncer as it
\* is; handleLoad, handleUnload and handleFilamentChangeComplete are
\* startLoad, startUnload and reset of the hook
NextCard ==
    \/ \E t \in {1}, e \in {None} : FirstRequest /\ StartLoad(t, e) /\ HookOnly
    \/ FirstRequest /\ StartUnload /\ HookOnly
    \/ Reset /\ HookOnly
    \/ \E sn \in CardSnapshots :
          Telemetry(sn.amsUnits, sn.amsStatusMain, sn.trayNow, LatestAmsUpdate)
          /\ HookOnly
    \/ CardRender /\ CardOnly
    \/ CardEffects /\ CardOnly
    \/ \E tm \in timers : TimeoutFires(tm) /\ HookOnly
    \/ \E m \in inflight, ok \in BOOLEAN : MutationSuccess(m, ok) /\ HookOnly
    \/ \E m \in inflight : MutationError(m) /\ HookOnly
    \/ \E d \in hideTimers : HideTimerFires(d) /\ CardOnly
    \/ \E p \in CardTimePoints : Tick(p) /\ HookOnly
    \/ WaitForTimer /\ HookOnly
    \/ WaitForHide /\ CardOnly

SpecCard == Init /\ [][NextCard]_vars

\* C18: when the debounce effect sees shouldShowCard true again while a
\* hide is pending, that is less than 1500 ms after it saw it false, the
\* pending hide is cancelled and the card is kept visible; once the effect
\* has seen shouldShowCard true the card is set visible and no hide is
\* armed; the card is set hidden only by the callback of a hide timer, and
\* the rendered card changes only in a render that takes over the value set.
C18_DebounceHold ==
    [][ /\ (CardEffects /\ "debounce" \in cardEffectsDue /\ Signal) =>
              /\ pendingShow'
              /\ hideTimers' = {}
              /\ hideTimeoutRef' = None
        /\ (Signal' /\ "debounce" \notin cardEffectsDue') =>
              /\ pendingShow'
              /\ hideTimers' = {}
        /\ (pendingShow /\ ~pendingShow') => \E d \in hideTimers : HideTimerFires(d)
        /\ showFilamentChangeCard' # showFilamentChangeCard =>
              /\ CardRender
              /\ showFilamentChangeCard' = pendingShow ]_vars

\* shouldShowCard went true, false and true again 1000 ms after the false;
\* the effect has run, the card is visible and no hide is pending
C18_Witness ==
    /\ accepted = 0
    /\ state = "IDLE"
    /\ timers = {}
    /\ amsStatusMain = AmsFilamentChange
    /\ now = BootTime + 1000
    /\ showFilamentChangeCard
    /\ pendingShow
    /\ cardEffectsDue = {}
    /\ effectsDue = {}
    /\ hideTimers = {}
    /\ hideTimeoutRef = None

\* C19: when the debounce effect sees shouldShowCard false while the card is
\* visible and no hide is pending, it arms one hide timer for 1500 ms later
\* and leaves the card visible; while a hide is pending and shouldShowCard
\* stays false nothing but that timer's callback changes the card or the
\* timer; the callback runs when exactly 1500 ms have passed, sets the card
\* hidden and leaves no timer armed.
C19_DebounceRelease ==
    [][ /\ (CardEffects /\ "debounce" \in cardEffectsDue /\ ~Signal
            /\ showFilamentChangeCard /\ hideTimers = {}) =>
              /\ pendingShow' = pendingShow
              /\ hideTimers' = {now' + HideDelayMs}
              /\ hideTimeoutRef' = Some(now' + HideDelayMs)
        /\ (hideTimers # {} /\ ~Signal /\ ~Signal'
            /\ ~\E d \in hideTimers : HideTimerFires(d)) =>
              UNCHANGED <<showFilamentChangeCard, pendingShow, hideTimers, hideTimeoutRef>>
        /\ \A d \in hideTimers :
              HideTimerFires(d) =>
                 /\ now = d
                 /\ ~pendingShow'
                 /\ hideTimers' = {}
                 /\ hideTimeoutRef' = None
        /\ \A d \in hideTimers' : now' <= d
        /\ Cardinality(hideTimers') <= 1 ]_vars

\* the timer's callback has set the card hidden 1500 ms after shouldShowCard
\* was seen false; the render that takes the card away is still to come
C19_Witness ==
    /\ showFilamentChangeCard
    /\ ~pendingShow
    /\ now = BootTime + HideDelayMs
    /\ state = "IDLE"
    /\ timers = {}
    /\ amsStatusMain = AmsIdle
    /\ hideTimers = {}
    /\ hideTimeoutRef = None
    /\ cardEffectsDue = {}

(***************************************************************************)
(* The last-operation memory.                                              *)
(***************************************************************************)
\* the commands dispatched by the step
NewCommands == inflight' \ inflight

\* C21 as stated: every accepted request, a refresh too, sets the
\* last-operation memory to its own kind, and no other step changes it.
C21_LastKindEveryRequest ==
    [][ /\ \A m \in NewCommands : accepted' # accepted => pendingLastOp' = m.kind
        /\ accepted' = accepted => pendingLastOp' = pendingLastOp ]_vars

\* C21: an accepted load or unload sets the last-operation memory to its
\* kind, an accepted refresh leaves it as it was, and no completion,
\* timeout, cancel or dispatch error clears or changes it: without an
\* accepted request the queued value is unchanged and the rendered value
\* only takes over the queued one.
C21_LastKindLoadUnload ==
    [][ /\ \A m \in NewCommands :
              accepted' # accepted =>
                 /\ m.kind \in {"load", "unload"} => pendingLastOp' = m.kind
                 /\ m.kind = "refresh" => pendingLastOp' = pendingLastOp
        /\ accepted' = accepted =>
              /\ pendingLastOp' = pendingLastOp
              /\ lastOperationType' \in {lastOperationType, pendingLastOp} ]_vars

\* a refresh runs after a load was retired, and the memory still says load
C21_Witness ==
    /\ state = "REFRESHING"
    /\ accepted = 2
    /\ lastOperationType = "load"
    /\ pendingLastOp = "load"

(***************************************************************************)
(* Detectors and callbacks against the wrong operation.                    *)
(***************************************************************************)
\* C23: while a load or unload runs to which no snapshot with status 1 has
\* been delivered since it was accepted, the evaluation of a snapshot with
\* status 0 and an unchanged tray_now leaves it running, whatever status
\* was reported before the acceptance.
C23_NoEdgeFromBeforeAcceptance ==
    [][ ( /\ state \in FilamentStates
          /\ Effects
          /\ sawActive = "no"
          /\ amsStatusMain = AmsIdle
          /\ effectsDue \cap {"load", "unload"} = {} ) => StaysAsItWas ]_vars

\* C24: the value match is evaluated on every delivery: when the detectors
\* run after the minimum wait on a snapshot that repeats the tray_now of the
\* render before, 255 for an unload or the target for a load, the operation
\* is completed.
C24_ValueMatchOnEveryDelivery ==
    [][ /\ ( /\ state = "UNLOADING" /\ Effects
             /\ "unload" \notin effectsDue
             /\ trayNow = TrayNone
             /\ Elapsed > UnloadTrayGuardMs ) => pendingState' = "IDLE"
        /\ ( /\ state = "LOADING" /\ Effects
             /\ "load" \notin effectsDue
             /\ Some(trayNow) = Get(context).loadTargetTrayId
             /\ Elapsed > LoadTrayGuardMs ) => pendingState' = "IDLE" ]_vars

\* C26: the answer to the command of an operation that is no longer the
\* running one, a failure result or a transport error, leaves the running
\* operation's state, context and timer as they were.
C26_LateFailureIgnored ==
    [][ \A m \in inflight :
          ( /\ pendingState # "IDLE"
            /\ m.id # accepted
            /\ \A tm \in timers : tm.id = accepted
            /\ MutationSuccess(m, FALSE) \/ MutationError(m) ) =>
              UNCHANGED <<pendingState, pendingContext, timeoutRef, timers>> ]_vars

\* C28: a timeout timer is armed exactly while the coordinator is not IDLE,
\* the state queued by an accepted request included, and never more than
\* one.
C28_TimerIffBusy ==
    /\ Cardinality(timers) <= 1
    /\ timers # {} <=> pendingState # "IDLE"

\* C29: a load of global tray id 0 records target 0 in its context, and a
\* snapshot that newly reports tray_now = 0 completes it through the value
\* match when the detector evaluates it more than 5000 ms after acceptance.
C29_LoadTargetZero ==
    [][ /\ \A m \in NewCommands :
              (accepted' # accepted /\ m.kind = "load") =>
                 IsSome(Get(pendingContext').loadTargetTrayId)
        /\ ( /\ state = "LOADING" /\ Evaluates("load")
             /\ Get(context).loadTargetTrayId = Some(0)
             /\ trayNow = 0
             /\ Elapsed > LoadTrayGuardMs ) =>
              /\ pendingState' = "IDLE"
              /\ "Load complete: tray_now matches target" \in logs' ]_vars

\* C30: while REFRESHING, the evaluation of a snapshot from which the target
\* tray is missing completes nothing, whatever its last_ams_update and
\* however late it is made.
C30_AbsentTargetStaysPending ==
    [][ (state = "REFRESHING" /\ Effects /\ ~IsSome(TargetTrayDelivered)) =>
          /\ StaysAsItWas
          /\ logs' = {} ]_vars

\* a refresh is still running more than 8000 ms after acceptance although
\* last_ams_update advanced: the snapshot lacks the target tray
C30_Witness ==
    /\ state = "REFRESHING"
    /\ pendingState = "REFRESHING"
    /\ effectsDue = {}
    /\ ~IsSome(FindTray(amsUnits, 0, 0))
    /\ lastAmsUpdate # refreshInitialAmsUpdateRef
    /\ now - Get(context).startTime > RefreshUpdateGuardMs

(***************************************************************************)
(* Tray addresses: the lookups of AMSSectionDual from a global tray id     *)
(* back to the unit and slot that hold it.  Both lookups are pure          *)
(* functions of the component's props and state; SpecTopology draws their  *)
(* arguments in its initial state and applies each of them once.           *)
(***************************************************************************)

\* the largest global tray id that names a tray
MaxTrayId == 253

\* unit ids of the feed units: 0.. for the four-slot units, 128.. for AMS-HT
TopologyUnitIds == {0, 1, 128, 129}

TopologyColors == <<"FF0000FF", "00FF00FF", "0000FFFF", "FFFF00FF">>

\* a unit as telemetry reports it: one tray per slot, tray ids 0..n-1
TopologyUnit(id) ==
    Unit(id, [i \in 1..(IF id >= 128 THEN 2 ELSE 4) |->
                 [Tray(i - 1, "tag", 50) EXCEPT !.tray_color = TopologyColors[i]]])

TopologyUnitLists ==
    { <<>>, <<TopologyUnit(0)>>, <<TopologyUnit(128)>>,
      <<TopologyUnit(0), TopologyUnit(1)>>, <<TopologyUnit(1), TopologyUnit(0)>>,
      <<TopologyUnit(0), TopologyUnit(128)>>, <<TopologyUnit(128), TopologyUnit(0)>>,
      <<TopologyUnit(1), TopologyUnit(129)>> }

\* global tray ids asked for: the slots of units 0, 1 and 2, the four
\* addresses from the base of each AMS-HT unit, and the two reserved values
TopologyAddresses ==
    (0..9) \cup (512..519) \cup {MaxTrayId, TrayExternal, TrayNone}

\* status.ams_extruder_map, keyed by unit id; None where the key is missing
ExtruderMaps ==
    { [id \in TopologyUnitIds |-> None],
      [id \in TopologyUnitIds |-> Some(0)],
      [id \in TopologyUnitIds |-> IF id >= 128 THEN Some(1) ELSE Some(0)],
      [id \in TopologyUnitIds |-> IF id = 0 THEN Some(1) ELSE Some(0)] }

PanelIndexes == {0, 1}

\* mutation of slotsInUnit: every unit has four slots
slotsInUnitAlwaysFour(unit) == 4

slotsInUnit(unit) == IF unit.id >= 128 THEN 2 ELSE 4

baseSlotId(unit) == unit.id * 4

\* the loop `for (const unit of amsUnits)` with its range test: the first
\* unit whose range holds the tray id, with the slot index inside it
ScanUnits(units, trayId) ==
    LET hit == {i \in 1..Len(units) :
                   /\ trayId >= baseSlotId(units[i])
                   /\ trayId < baseSlotId(units[i]) + slotsInUnit(units[i])}
    IN  IF hit = {} THEN None
        ELSE LET unit == units[MinOf(hit)]
             IN  Some([unit |-> unit, slotIndex |-> trayId - baseSlotId(unit)])

\* array.filter, the test given as the set of positions it keeps
RECURSIVE FilterUnits(_, _)
FilterUnits(units, keep) ==
    IF units = <<>> THEN <<>>
    ELSE FilterUnits(SubSeq(units, 1, Len(units) - 1), keep)
         \o (IF Len(units) \in keep THEN <<units[Len(units)]>> ELSE <<>>)

\* Object.keys(amsExtruderMap).length > 0
HasKeys(map) == \E id \in DOMAIN map : IsSome(map[id])

leftUnits(isDualNozzle, units, map) ==
    IF ~isDualNozzle THEN units
    ELSE IF HasKeys(map)
         THEN FilterUnits(units, {i \in 1..Len(units) : map[units[i].id] = Some(1)})
         ELSE FilterUnits(units, {i \in 1..Len(units) : (i - 1) % 2 = 0})

rightUnits(isDualNozzle, units, map) ==
    IF ~isDualNozzle THEN <<>>
    ELSE IF HasKeys(map)
         THEN FilterUnits(units, {i \in 1..Len(units) : map[units[i].id] = Some(0)})
         ELSE FilterUnits(units, {i \in 1..Len(units) : (i - 1) % 2 = 1})

\* array[index], None when out of range
At(seq, index) == IF index + 1 \in DOMAIN seq THEN Some(seq[index + 1]) ELSE None

NoLoadedTray ==
    [leftActiveSlot |-> None, rightActiveSlot |-> None,
     leftFilamentColor |-> None, rightFilamentColor |-> None]

\* getExtruderIdForTray(trayId): None is undefined
getExtruderIdForTray(isDualNozzle, units, map, trayId) ==
    IF ~isDualNozzle THEN None
    ELSE LET found == ScanUnits(units, trayId)
         IN  IF IsSome(found) THEN map[Get(found).unit.id] ELSE None

\* getLoadedTrayInfo(): None is null
getLoadedTrayInfo(isDualNozzle, units, map, leftAmsIndex, rightAmsIndex, tn) ==
    IF tn = TrayNone \/ tn = TrayExternal THEN NoLoadedTray
    ELSE LET found == ScanUnits(units, tn)
         IN  IF ~IsSome(found) THEN NoLoadedTray
             ELSE LET unit == Get(found).unit
                      slotIndex == Get(found).slotIndex
                      tray == At(unit.tray, slotIndex)
                      color == IF IsSome(tray) THEN Some(Get(tray).tray_color) ELSE None
                      currentLeftUnit == At(leftUnits(isDualNozzle, units, map), leftAmsIndex)
                      currentRightUnit == At(rightUnits(isDualNozzle, units, map), rightAmsIndex)
                  IN  IF map[unit.id] = Some(1)
                      THEN [leftActiveSlot |->
                               IF IsSome(currentLeftUnit) /\ Get(currentLeftUnit).id = unit.id
                               THEN Some(slotIndex) ELSE None,
                            rightActiveSlot |-> None,
                            leftFilamentColor |-> color,
                            rightFilamentColor |-> None]
                      ELSE [leftActiveSlot |-> None,
                            rightActiveSlot |->
                               IF IsSome(currentRightUnit) /\ Get(currentRightUnit).id = unit.id
                               THEN Some(slotIndex) ELSE None,
                            leftFilamentColor |-> None,
                            rightFilamentColor |-> color]

\* the arguments of one lookup
LookupInputs ==
    [done : {FALSE}, amsUnits : TopologyUnitLists, trayId : TopologyAddresses,
     isDualNozzle : BOOLEAN, amsExtruderMap : ExtruderMaps,
     leftAmsIndex : PanelIndexes, rightAmsIndex : PanelIndexes]

InitTopology ==
    /\ InitHook
    /\ filamentChangeCard = Unmounted
    /\ stepView = NotCalled
    /\ lookup \in LookupInputs

TopologyOnly ==
    UNCHANGED <<state, context, lastOperationType, pendingState, pendingContext,
                pendingLastOp, amsUnits, amsStatusMain, trayNow, lastAmsUpdate,
                prevAmsStatusMainRef, refreshInitialDataRef,
                refreshInitialAmsUpdateRef, timeoutRef, timers, inflight, now,
                accepted, dispatched, logs, sawActive, delivered, effectsDue,
                showFilamentChangeCard, pendingShow, cardEffectsDue,
                hideTimeoutRef, hideTimers, filamentChangeCard, stepView>>

\* a caller asks for the extruder of a tray (handleLoad)
GetExtruderIdForTray ==
    /\ ~lookup.done
    /\ lookup' = [done |-> TRUE, fn |-> "getExtruderIdForTray", in |-> lookup,
                  scanned |-> lookup.isDualNozzle,
                  found |-> IF lookup.isDualNozzle
                            THEN ScanUnits(lookup.amsUnits, lookup.trayId) ELSE None,
                  result |-> getExtruderIdForTray(lookup.isDualNozzle, lookup.amsUnits,
                                                  lookup.amsExtruderMap, lookup.trayId)]
    /\ TopologyOnly

\* a render asks where the loaded tray is; the tray id is tray_now
GetLoadedTrayInfo ==
    /\ ~lookup.done
    /\ lookup' = [done |-> TRUE, fn |-> "getLoadedTrayInfo", in |-> lookup,
                  scanned |-> lookup.trayId \notin {TrayNone, TrayExternal},
                  found |-> IF lookup.trayId \in {TrayNone, TrayExternal} THEN None
                            ELSE ScanUnits(lookup.amsUnits, lookup.trayId),
                  result |-> getLoadedTrayInfo(lookup.isDualNozzle, lookup.amsUnits,
                                               lookup.amsExtruderMap, lookup.leftAmsIndex,
                                               lookup.rightAmsIndex, lookup.trayId)]
    /\ TopologyOnly

NextTopology == GetExtruderIdForTray \/ GetLoadedTrayInfo

SpecTopology == InitTopology /\ [][NextTopology]_vars

\* the unit and slot a global tray id names among the units given, by the
\* address format unit id * 4 + slot index; None when no unit has that slot
TrayAt(units, trayId) ==
    LET owner == {i \in 1..Len(units) :
                     \E k \in 0..3 :
                        /\ k < (IF units[i].id < 128 THEN 4 ELSE 2)
                        /\ trayId = units[i].id * 4 + k}
    IN  IF owner = {} THEN None
        ELSE LET i == CHOOSE j \in owner : TRUE
             IN  Some([unitId |-> units[i].id, slotIndex |-> trayId - units[i].id * 4])

\* what a finished lookup found, as (unit id, slot index)
Found ==
    IF IsSome(lookup.found)
    THEN Some([unitId |-> Get(lookup.found).unit.id,
               slotIndex |-> Get(lookup.found).slotIndex])
    ELSE None

\* C22: a lookup that scans the units (getLoadedTrayInfo, and
\* getExtruderIdForTray on a dual-nozzle printer) finds, for the address
\* unit id * 4 + slot index of a slot of a known unit (four slots below unit
\* id 128, two from 128 on), exactly that unit and slot index; for an address
\* in no known unit's range, slots 2 and 3 of an AMS-HT unit and the values
\* 254 and 255 among them, it finds nothing and returns its not-found value
\* (all fields null, or undefined).  What the lookup returns is taken from
\* the unit found: the slot index on the panel that displays the unit, the
\* colour of that tray, the extruder the map gives for that unit.
C22_TopologyRoundTrip ==
    lookup.done =>
       LET in == lookup.in
           at == TrayAt(in.amsUnits, in.trayId)
       IN  /\ (lookup.scanned \/ ~IsSome(at)) => Found = at
           /\ ~IsSome(at) =>
                 lookup.result = (IF lookup.fn = "getLoadedTrayInfo"
                                  THEN NoLoadedTray ELSE None)
           /\ (IsSome(at) /\ lookup.fn = "getExtruderIdForTray" /\ lookup.scanned) =>
                 lookup.result = in.amsExtruderMap[Get(at).unitId]
           /\ (IsSome(at) /\ lookup.fn = "getLoadedTrayInfo") =>
                 /\ {lookup.result.leftActiveSlot, lookup.result.rightActiveSlot}
                       \subseteq {None, Some(Get(at).slotIndex)}
                 /\ {lookup.result.leftFilamentColor, lookup.result.rightFilamentColor}
                       = {None, Some(TopologyColors[Get(at).slotIndex + 1])}

\* the second slot of an AMS-HT unit listed after a four-slot unit is found
C22_Witness ==
    /\ lookup.done
    /\ lookup.fn = "getLoadedTrayInfo"
    /\ lookup.in.trayId = 513
    /\ Len(lookup.in.amsUnits) = 2
    /\ Found = Some([unitId |-> 128, slotIndex |-> 1])
    /\ lookup.result.leftActiveSlot = Some(1)

(***************************************************************************)
(* FilamentChangeCard: the completion effect of the card and the step list *)
(* it draws.  SpecSteps draws the props and the state of one mounted card  *)
(* in its initial state and renders it once.                               *)
(***************************************************************************)

SUB_HEATING == 2
SUB_FEEDING == 3
SUB_RETRACT == 4
SUB_PUSH_PREP == 5
SUB_PUSH == 6
SUB_PURGE == 7
SUB_FEEDING_START == 9

\* the card detects nothing in its first 3000 ms
MountGuardMs == 3000

\* onComplete is called 1500 ms after the card detected completion
CompletionDelayMs == 1500

\* the step number that stands for "all done"
AllDone == 99

\* the largest ams_status_sub value drawn
MaxStatusSub == 10

StatusSubValues == 0..MaxStatusSub

\* the props of FilamentChangeCard
CardProps(isLoading, main, sub, tn, target, initiated) ==
    [isLoading |-> isLoading, amsStatusMain |-> main, amsStatusSub |-> sub,
     trayNow |-> tn, targetTrayId |-> target, operationInitiated |-> initiated]

\* the card right after mounting at time t: useState / useRef initial values
Mounted(cardProps, t) ==
    [mounted |-> TRUE, isCompleted |-> FALSE,
     prevAmsStatusRef |-> cardProps.amsStatusMain, prevTrayNowRef |-> cardProps.trayNow,
     completionTimeoutRef |-> None, mountTimeRef |-> t, completionTimers |-> {}]

\* the most timers of the card that are armed at one time: telemetry stops
\* once that many are
MaxCardTimers == 2

\* the handle setTimeout returns: one that no armed timer of the card has
FreshHandle(card) ==
    MinOf({i \in 1..(Cardinality(card.completionTimers) + 1) :
              \A tm \in card.completionTimers : tm.id # i})

\* a timer of the card: id is its handle, op is the number of requests
\* accepted when it was armed, the operation whose completion the card
\* detected
CompletionTimer(t, op, id) == [deadline |-> t + CompletionDelayMs, op |-> op, id |-> id]

\* setIsCompleted(true); completionTimeoutRef.current = setTimeout(onComplete, 1500)
DetectCompletion(card, t, op) ==
    LET timer == CompletionTimer(t, op, FreshHandle(card))
    IN  [card EXCEPT !.isCompleted = TRUE,
                     !.completionTimeoutRef = Some(timer),
                     !.completionTimers = @ \cup {timer}]

\* the completion effect of the card, run at time t
CompletionEffect(card, cardProps, t, op) ==
    LET wasActive == card.prevAmsStatusRef = 1
        isNowIdle == cardProps.amsStatusMain = 0
        trayChanged == cardProps.trayNow # card.prevTrayNowRef
        elapsed == t - card.mountTimeRef
        detected ==
           IF elapsed < MountGuardMs THEN card
           ELSE IF wasActive /\ isNowIdle THEN DetectCompletion(card, t, op)
           ELSE IF trayChanged
                THEN IF /\ cardProps.isLoading
                        /\ IsSome(cardProps.targetTrayId)
                        /\ cardProps.trayNow = Get(cardProps.targetTrayId)
                     THEN DetectCompletion(card, t, op)
                     ELSE IF ~cardProps.isLoading /\ cardProps.trayNow = TrayNone
                          THEN DetectCompletion(card, t, op)
                          ELSE card
                ELSE card
    IN  [detected EXCEPT !.prevAmsStatusRef = cardProps.amsStatusMain,
                         !.prevTrayNowRef = cardProps.trayNow]

\* mutation of getStepFromAmsStatusSub: an unlisted code is "not started"
getStepFromAmsStatusSubNoDefault(cardProps, isCompleted) ==
    IF isCompleted THEN AllDone
    ELSE IF cardProps.amsStatusMain # 1
         THEN (IF cardProps.operationInitiated THEN 1 ELSE 0)
    ELSE IF cardProps.isLoading
         THEN IF cardProps.amsStatusSub \in {SUB_FEEDING_START, SUB_PUSH_PREP, SUB_PUSH, SUB_FEEDING}
              THEN 1
              ELSE IF cardProps.amsStatusSub = SUB_HEATING THEN 2
              ELSE IF cardProps.amsStatusSub = SUB_PURGE THEN 3
              ELSE 0
         ELSE IF cardProps.amsStatusSub \in {SUB_FEEDING_START, SUB_HEATING} THEN 1
              ELSE IF cardProps.amsStatusSub \in {SUB_FEEDING, SUB_RETRACT} THEN 2
              ELSE 0

getStepFromAmsStatusSub(cardProps, isCompleted) ==
    IF isCompleted THEN AllDone
    ELSE IF cardProps.amsStatusMain # 1
         THEN (IF cardProps.operationInitiated THEN 1 ELSE 0)
    ELSE IF cardProps.isLoading
         THEN IF cardProps.amsStatusSub \in {SUB_FEEDING_START, SUB_PUSH_PREP, SUB_PUSH, SUB_FEEDING}
              THEN 1
              ELSE IF cardProps.amsStatusSub = SUB_HEATING THEN 2
              ELSE IF cardProps.amsStatusSub = SUB_PURGE THEN 3
              ELSE 1
         ELSE IF cardProps.amsStatusSub \in {SUB_FEEDING_START, SUB_HEATING} THEN 1
              ELSE IF cardProps.amsStatusSub \in {SUB_FEEDING, SUB_RETRACT} THEN 2
              ELSE 1

StepInfo(label, stepNumber, status) ==
    [label |-> label, stepNumber |-> stepNumber, status |-> status]

getLoadingSteps(currentStep) ==
    LET step1Status == IF currentStep >= 2 THEN "completed"
                       ELSE IF currentStep >= 1 THEN "in_progress" ELSE "pending"
        step2Status == IF currentStep >= 3 THEN "completed"
                       ELSE IF currentStep >= 2 THEN "in_progress" ELSE "pending"
        step3Status == IF currentStep >= AllDone THEN "completed"
                       ELSE IF currentStep >= 3 THEN "in_progress" ELSE "pending"
    IN  << StepInfo("Push new filament into extruder", 1, step1Status),
           StepInfo("Heat the nozzle", 2, step2Status),
           StepInfo("Purge old filament", 3, step3Status) >>

getUnloadingSteps(currentStep) ==
    LET step1Status == IF currentStep >= 2 THEN "completed"
                       ELSE IF currentStep >= 1 THEN "in_progress" ELSE "pending"
        step2Status == IF currentStep >= AllDone THEN "completed"
                       ELSE IF currentStep >= 2 THEN "in_progress" ELSE "pending"
    IN  << StepInfo("Heat the nozzle", 1, step1Status),
           StepInfo("Retract filament from extruder", 2, step2Status) >>

\* the props and the state of a mounted card about to render: the age of
\* the card is just inside or just past the mount guard, and a card that has
\* detected completion did so past the guard
StepInputs ==
    LET all ==
          { [done |-> FALSE, cardProps |-> CardProps(l, m, sub, tn, tg, oi),
             card |-> IF c
                      THEN DetectCompletion(Mounted(CardProps(l, pm, sub, ptn, tg, oi),
                                                    BootTime),
                                            BootTime + MountGuardMs, 1)
                      ELSE Mounted(CardProps(l, pm, sub, ptn, tg, oi), BootTime),
             at |-> BootTime + age] :
               l \in BOOLEAN, m \in AmsStatusValues, sub \in StatusSubValues,
               tn \in {1, TrayNone}, ptn \in {1, TrayNone},
               pm \in {AmsIdle, AmsFilamentChange},
               tg \in {None, Some(1)}, oi \in BOOLEAN,
               c \in BOOLEAN, age \in {MountGuardMs - 1, MountGuardMs} }
    IN  {v \in all : v.card.isCompleted => v.at >= BootTime + MountGuardMs}

InitSteps ==
    /\ InitHook
    /\ filamentChangeCard = Unmounted
    /\ lookup = NotCalled
    /\ stepView \in StepInputs

StepsOnly ==
    UNCHANGED <<state, context, lastOperationType, pendingState, pendingContext,
                pendingLastOp, amsUnits, amsStatusMain, trayNow, lastAmsUpdate,
                prevAmsStatusMainRef, refreshInitialDataRef,
                refreshInitialAmsUpdateRef, timeoutRef, timers, inflight, now,
                accepted, dispatched, logs, sawActive, delivered, effectsDue,
                showFilamentChangeCard, pendingShow, cardEffectsDue,
                hideTimeoutRef, hideTimers, filamentChangeCard, lookup>>

\* one render of the card: the step list drawn, then the completion effect
RenderSteps ==
    /\ ~stepView.done
    /\ LET currentStep == getStepFromAmsStatusSub(stepView.cardProps, stepView.card.isCompleted)
       IN  stepView' =
              [done |-> TRUE, cardProps |-> stepView.cardProps, card |-> stepView.card,
               at |-> stepView.at,
               currentStep |-> currentStep,
               steps |-> IF stepView.cardProps.isLoading THEN getLoadingSteps(currentStep)
                         ELSE getUnloadingSteps(currentStep),
               after |-> CompletionEffect(stepView.card, stepView.cardProps,
                                          stepView.at, 1)]
    /\ StepsOnly

SpecSteps == InitSteps /\ [][RenderSteps]_vars

\* the codes the step table of an operation kind lists
ListedSubs(isLoading) == IF isLoading THEN {2, 3, 5, 6, 7, 9} ELSE {2, 3, 4, 9}

\* the ordered step names of an operation kind
StepNames(isLoading) ==
    IF isLoading
    THEN <<"Push new filament into extruder", "Heat the nozzle", "Purge old filament">>
    ELSE <<"Heat the nozzle", "Retract filament from extruder">>

\* the step list is the ordered list of the kind; the steps before the
\* current step are completed, the current one is in progress, the later
\* ones are pending
StepListShape ==
    LET names == StepNames(stepView.cardProps.isLoading)
    IN  /\ Len(stepView.steps) = Len(names)
        /\ \A i \in 1..Len(names) :
              /\ stepView.steps[i].label = names[i]
              /\ stepView.steps[i].stepNumber = i
              /\ stepView.steps[i].status =
                    (IF i < stepView.currentStep THEN "completed"
                     ELSE IF i = stepView.currentStep THEN "in_progress"
                     ELSE "pending")
        /\ Cardinality({i \in 1..Len(names) : stepView.steps[i].status = "in_progress"}) <= 1

\* what the completion effect does is the same for every sub-step code
SubStepCosmetic ==
    \A sub \in StatusSubValues :
       CompletionEffect(stepView.card, [stepView.cardProps EXCEPT !.amsStatusSub = sub],
                        stepView.at, 1) = stepView.after

\* C25 as stated: while ams_status_main is 1 every sub-step code maps to one
\* step of the ordered list (1..3 for a load, 1..2 for an unload), an
\* unlisted code to the first step; the step list has at most one step in
\* progress, the earlier ones completed and the later ones pending; the
\* sub-step code has no influence on the completion the card detects.
C25_SubStepProjection ==
    stepView.done =>
       /\ stepView.cardProps.amsStatusMain = AmsFilamentChange =>
             /\ stepView.currentStep \in 1..Len(StepNames(stepView.cardProps.isLoading))
             /\ stepView.cardProps.amsStatusSub \notin ListedSubs(stepView.cardProps.isLoading)
                   => stepView.currentStep = 1
       /\ StepListShape
       /\ SubStepCosmetic

\* C25 amended: the mapping to a step of the list is that of a card that has
\* not yet detected completion; once it has, the step is "all done" and
\* every step of the list is completed, whatever the sub-step code and while
\* ams_status_main is still 1.
C25_SubStepProjectionUntilCompleted ==
    stepView.done =>
       /\ (stepView.cardProps.amsStatusMain = AmsFilamentChange /\ ~stepView.card.isCompleted) =>
             /\ stepView.currentStep \in 1..Len(StepNames(stepView.cardProps.isLoading))
             /\ stepView.cardProps.amsStatusSub \notin ListedSubs(stepView.cardProps.isLoading)
                   => stepView.currentStep = 1
       /\ stepView.card.isCompleted =>
             /\ stepView.currentStep = AllDone
             /\ \A i \in 1..Len(stepView.steps) : stepView.steps[i].status = "completed"
       /\ StepListShape
       /\ SubStepCosmetic

\* a load at the purge step: two steps completed, the third in progress,
\* and the card detects completion from tray_now on this render
C25_Witness ==
    /\ stepView.done
    /\ stepView.cardProps.isLoading
    /\ stepView.cardProps.amsStatusMain = AmsFilamentChange
    /\ stepView.cardProps.amsStatusSub = SUB_PURGE
    /\ ~stepView.card.isCompleted
    /\ stepView.currentStep = 3
    /\ stepView.steps[3].status = "in_progress"
    /\ stepView.after.isCompleted

(***************************************************************************)
(* The card inside the component: AMSSectionDual renders FilamentChangeCard*)
(* while showFilamentChangeCard holds and passes handleFilamentChangeComplete *)
(* (amsOps.reset()) as onComplete.  SpecProgress is SpecCard with the      *)
(* card's state, its completion effect and its timers; the command sink    *)
(* stays silent in it, so that every operation ends through telemetry, a   *)
(* timer or the card.  The card is rendered with its parent; its effects   *)
(* run with the parent's, and its cleanup on unmount does too.             *)
(***************************************************************************)

\* the hook as one render shows it to the component
HookView(st, ctx, lastOp) == [state |-> st, context |-> ctx, lastOperationType |-> lastOp]

\* isFilamentLoadOperation
isFilamentLoadOperation(hook, tn) ==
    IF hook.state = "LOADING" THEN TRUE
    ELSE IF hook.state = "UNLOADING" THEN FALSE
    ELSE IF hook.lastOperationType = "load" THEN TRUE
    ELSE IF hook.lastOperationType = "unload" THEN FALSE
    ELSE tn # TrayNone

\* amsOps.loadTargetTrayId: context?.loadTargetTrayId ?? null
loadTargetTrayId(hook) ==
    IF IsSome(hook.context) THEN Get(hook.context).loadTargetTrayId ELSE None

\* the props AMSSectionDual passes to the card; ams_status_sub is not part
\* of the snapshots of this specification and reads as 0
PropsOfCard(hook, main, tn) ==
    CardProps(isFilamentLoadOperation(hook, tn), main, 0, tn, loadTargetTrayId(hook),
              hook.state = "LOADING" \/ hook.state = "UNLOADING")

\* the cleanup of the card on unmount: it clears the timer the ref holds
UnmountCard(card) ==
    IF ~card.mounted THEN card
    ELSE [mounted |-> FALSE,
          completionTimers |->
             IF IsSome(card.completionTimeoutRef)
             THEN card.completionTimers \ {Get(card.completionTimeoutRef)}
             ELSE card.completionTimers]

\* the card after a render of the component at time t: a card that is
\* mounted by this render keeps the timers of an earlier card that were not
\* cleared; a card that is taken away stays as it is until its cleanup runs
CardRendered(card, show, cardProps, t) ==
    IF show /\ ~card.mounted
    THEN [Mounted(cardProps, t) EXCEPT !.completionTimers = card.completionTimers]
    ELSE card

\* the effects of the card that a render of the component schedules:
\* onComplete is a new function in every render, so the completion effect of
\* a rendered card is always due
CardDue(card, show) ==
    IF show THEN {"card"}
    ELSE IF card.mounted THEN {"unmount"}
    ELSE {}

\* the card's part of the task that runs the scheduled effects at time t
CardFlushed(card, due, cardProps, t, op) ==
    IF "card" \in due THEN CompletionEffect(card, cardProps, t, op)
    ELSE IF "unmount" \in due THEN UnmountCard(card)
    ELSE card

\* React renders the component and, when it is shown, the card
ProgressRender ==
    /\ ParentRenderPending
    /\ effectsDue = {}
    /\ cardEffectsDue = {}
    /\ Commit
    /\ CardCommit(CardDue(filamentChangeCard, pendingShow))
    /\ filamentChangeCard' =
          CardRendered(filamentChangeCard, pendingShow,
                       PropsOfCard(HookView(pendingState, pendingContext, pendingLastOp),
                                   NextProps.amsStatusMain, NextProps.trayNow),
                       now')

\* React runs the passive effects of the last render: the card's, the
\* hook's and the debouncer's
ProgressEffects ==
    /\ CardEffects
    /\ filamentChangeCard' =
          CardFlushed(filamentChangeCard, cardEffectsDue,
                      PropsOfCard(HookView(state, context, lastOperationType),
                                  amsStatusMain, trayNow),
                      now', accepted)

\* a timer of the card fires: onComplete() is handleFilamentChangeComplete,
\* which calls amsOps.reset()
CompletionTimerFires(tm) ==
    /\ tm \in filamentChangeCard.completionTimers
    /\ now >= tm.deadline
    /\ Queued(reset(Store))
    /\ History(reset(Store))
    /\ CallbackOnly
    /\ filamentChangeCard' = [filamentChangeCard EXCEPT !.completionTimers = @ \ {tm}]
    /\ UNCHANGED Debouncer

\* time passes until the next armed timer of the card is due
WaitForCompletion ==
    LET due == MinOf({tm.deadline : tm \in filamentChangeCard.completionTimers})
    IN  /\ filamentChangeCard.completionTimers # {}
        /\ now < due
        /\ \A tm \in timers : due <= tm.deadline
        /\ \A d \in hideTimers : due <= d
        /\ now' = due
        /\ logs' = {}
        /\ UNCHANGED <<Clockless, Debouncer, filamentChangeCard>>

\* the snapshots of this specification: idle with no filament loaded, and
\* a filament change in progress with tray 1 loaded; between them they move
\* the status edge and the tray_now detectors of the hook and of the card
ProgressSnapshots ==
    {sn \in CardSnapshots : (sn.trayNow = TrayNone) = (sn.amsStatusMain = AmsIdle)}

\* the instant of this specification: beyond the mount guard of the card and
\* the tray_now waits of the hook
ProgressTimePoints == {5001}

ProgressOnly == UNCHANGED <<lookup, stepView>>

\* the callbacks of the hook and the time steps leave the debouncer and the
\* card as they are; no snapshot is delivered while MaxCardTimers timers of
\* the card are armed
NextProgress ==
    \/ \E t \in {1}, e \in {None} : StartLoad(t, e) /\ HookOnly
    \/ FirstRequest /\ StartUnload /\ HookOnly
    \/ \E sn \in ProgressSnapshots :
          /\ Cardinality(filamentChangeCard.completionTimers) < MaxCardTimers
          /\ Telemetry(sn.amsUnits, sn.amsStatusMain, sn.trayNow, LatestAmsUpdate)
          /\ HookOnly
    \/ ProgressRender /\ ProgressOnly
    \/ ProgressEffects /\ ProgressOnly
    \/ \E tm \in timers : TimeoutFires(tm) /\ HookOnly
    \/ \E d \in hideTimers : HideTimerFires(d) /\ CardOnly
    \/ \E tm \in filamentChangeCard.completionTimers :
          CompletionTimerFires(tm) /\ ProgressOnly
    \/ \E p \in ProgressTimePoints : Tick(p) /\ HookOnly
    \/ WaitForTimer /\ HookOnly
    \/ WaitForHide /\ CardOnly
    \/ WaitForCompletion /\ ProgressOnly

SpecProgress == Init /\ [][NextProgress]_vars

\* C27: the delayed completion callback of the card retires only the
\* operation whose completion the card detected: when the card detected the
\* completion of an operation of the hook, a request was accepted after that
\* and its operation is running, the callback leaves that operation running,
\* with its context and its timer.
C27_CallbackRetiresOwnOperation ==
    [][ \A tm \in filamentChangeCard.completionTimers :
          ( /\ CompletionTimerFires(tm)
            /\ tm.op >= 1
            /\ accepted > tm.op
            /\ state # "IDLE"
            /\ pendingState = state
            /\ \A t \in timers : t.id = accepted ) =>
             /\ pendingState' = pendingState
             /\ pendingContext' = pendingContext
             /\ timers' = timers ]_vars

\* two timers of the card are armed for the same instant by two detections
\* within one mount of the card
TwoCompletionTimers ==
    /\ filamentChangeCard.mounted
    /\ \E t1, t2 \in filamentChangeCard.completionTimers :
          t1.id # t2.id /\ t1.deadline = t2.deadline /\ t1.op = t2.op

\* the card has marked the operation completed while ams_status_main is 1
CompletedWhileActive ==
    /\ filamentChangeCard.mounted
    /\ filamentChangeCard.isCompleted
    /\ amsStatusMain = AmsFilamentChange

====
